---- MODULE Spec2Model ----
(***************************************************************************)
(* Record canonicalization and entity projection pipeline                  *)
(*   step 2.2  extract_from_description  (Signal Extractor)                *)
(*   step 2.3  normalize_city_file       (Canonicalizer)                   *)
(*   step 2.10 run                       (Entity Projector)                *)
(* Cell values are strings, as pandas holds them; a missing cell (NaN) is  *)
(* the text pandas parses as missing, and Python's None is its own text.   *)
(***************************************************************************)
EXTENDS Integers, Sequences, FiniteSets, TLC

\* ------------------------------------------------------------------------
\* Bounds of the model
\* ------------------------------------------------------------------------
\* number of rows of the combined file read by the Entity Projector
MaxRows == 3

\* ------------------------------------------------------------------------
\* Python values and string methods
\* ------------------------------------------------------------------------
NaN == "nan"
None == "None"

isna(v) == v = NaN \/ v = None

notna(v) == ~isna(v)

WHITESPACE == {" ", "\t", "\n", "\r"}

RECURSIVE lstrip(_)
lstrip(s) ==
    IF Len(s) > 0 /\ SubSeq(s, 1, 1) \in WHITESPACE
    THEN lstrip(SubSeq(s, 2, Len(s)))
    ELSE s

RECURSIVE rstrip(_)
rstrip(s) ==
    IF Len(s) > 0 /\ SubSeq(s, Len(s), Len(s)) \in WHITESPACE
    THEN rstrip(SubSeq(s, 1, Len(s) - 1))
    ELSE s

\* str.strip()
strip(s) == rstrip(lstrip(s))

Min(S) == CHOOSE m \in S : \A o \in S : m <= o

Max(S) == CHOOSE m \in S : \A o \in S : m >= o

\* s[a:b] for 0 <= a and b <= len(s)
slice(s, a, b) == SubSeq(s, a + 1, b)

\* s[i]
at(s, i) == SubSeq(s, i + 1, i + 1)

\* s.find(k, start): the lowest index >= start at which k occurs, or -1
find(s, k, start) ==
    LET hits == {i \in start..(Len(s) - Len(k)) : slice(s, i, i + Len(k)) = k}
    IN  IF hits = {} THEN -1 ELSE Min(hits)

\* k in s
contains(s, k) == \E i \in 0..(Len(s) - Len(k)) : slice(s, i, i + Len(k)) = k

\* any(k in s for k in keywords)
contains_any(s, keywords) == \E n \in 1..Len(keywords) : contains(s, keywords[n])

RECURSIVE split_from(_, _, _)
split_from(s, sep, start) ==
    LET idx == find(s, sep, start)
    IN  IF idx = -1
        THEN <<slice(s, start, Len(s))>>
        ELSE <<slice(s, start, idx)>> \o split_from(s, sep, idx + Len(sep))

\* str.split(sep): empty pieces are kept
split(s, sep) == split_from(s, sep, 0)

RECURSIVE join(_, _)
\* sep.join(list)
join(sep, list) ==
    IF list = <<>> THEN ""
    ELSE IF Len(list) = 1 THEN list[1]
    ELSE list[1] \o sep \o join(sep, Tail(list))

UPPERCASE == "ABCDEFGHIJKLMNOPQRSTUVWXYZ"

LOWERCASE == "abcdefghijklmnopqrstuvwxyz"

DIGITS == "0123456789"

LowerOf == [c \in {at(UPPERCASE, i) : i \in 0..25} |->
               at(LOWERCASE, CHOOSE i \in 0..25 : at(UPPERCASE, i) = c)]

UpperOf == [c \in {at(LOWERCASE, i) : i \in 0..25} |->
               at(UPPERCASE, CHOOSE i \in 0..25 : at(LOWERCASE, i) = c)]

DigitValue == [c \in {at(DIGITS, i) : i \in 0..9} |-> CHOOSE i \in 0..9 : at(DIGITS, i) = c]

RECURSIVE lower(_)
\* str.lower() on ASCII text
lower(s) ==
    IF Len(s) = 0 THEN s
    ELSE IF Len(s) = 1 THEN (IF s \in DOMAIN LowerOf THEN LowerOf[s] ELSE s)
    ELSE lower(slice(s, 0, Len(s) \div 2)) \o lower(slice(s, Len(s) \div 2, Len(s)))

RECURSIVE upper(_)
\* str.upper() on ASCII text
upper(s) ==
    IF Len(s) = 0 THEN s
    ELSE IF Len(s) = 1 THEN (IF s \in DOMAIN UpperOf THEN UpperOf[s] ELSE s)
    ELSE upper(slice(s, 0, Len(s) \div 2)) \o upper(slice(s, Len(s) \div 2, Len(s)))

\* c.isdigit() for one character
isdigit(c) == c \in DOMAIN DigitValue

\* every character of s[a:b] is a digit
all_digits(s, a, b) == \A j \in a..(b - 1) : isdigit(at(s, j))

\* \w of the re module, on ASCII
is_word_char(c) == c \in DOMAIN LowerOf \/ c \in DOMAIN UpperOf \/ isdigit(c) \/ c = "_"

RECURSIVE to_int(_)
\* int(s) for a string of digits
to_int(s) ==
    IF Len(s) = 0 THEN 0
    ELSE 10 * to_int(slice(s, 0, Len(s) - 1)) + DigitValue[at(s, Len(s) - 1)]

RECURSIVE int_to_str(_)
\* str(n) for n >= 0
int_to_str(n) ==
    IF n < 10 THEN at(DIGITS, n)
    ELSE int_to_str(n \div 10) \o at(DIGITS, n % 10)

RECURSIVE remove_chars(_, _)
\* s with every character of the set removed
remove_chars(s, chars) ==
    IF Len(s) = 0 THEN s
    ELSE IF Len(s) = 1 THEN (IF s \in chars THEN "" ELSE s)
    ELSE remove_chars(slice(s, 0, Len(s) \div 2), chars)
            \o remove_chars(slice(s, Len(s) \div 2, Len(s)), chars)

RECURSIVE Flatten(_)
Flatten(seqs) == IF seqs = <<>> THEN <<>> ELSE Head(seqs) \o Flatten(Tail(seqs))

\* Python truthiness of a str/None/NaN value: None and "" are falsy
truthy(v) == v # None /\ v # ""

\* the ASCII characters from the space to the underscore (code points 32..95)
ASCII_LOW ==
    " !\"#$%&'()*+,-./0123456789:;<=>?@ABCDEFGHIJKLMNOPQRSTUVWXYZ[\\]^_"

\* the ASCII characters from a to the tilde (code points 97..126)
ASCII_HIGH == "abcdefghijklmnopqrstuvwxyz{|}~"

\* ord(c)
CodePoint ==
    [c \in {at(ASCII_LOW, i) : i \in 0..(Len(ASCII_LOW) - 1)}
             \cup {at(ASCII_HIGH, i) : i \in 0..(Len(ASCII_HIGH) - 1)} |->
        IF \E i \in 0..(Len(ASCII_LOW) - 1) : at(ASCII_LOW, i) = c
        THEN 32 + CHOOSE i \in 0..(Len(ASCII_LOW) - 1) : at(ASCII_LOW, i) = c
        ELSE 97 + CHOOSE i \in 0..(Len(ASCII_HIGH) - 1) : at(ASCII_HIGH, i) = c]

\* a < b for two str values
str_less(a, b) ==
    \E n \in 0..Len(a) :
        /\ n <= Len(b)
        /\ slice(a, 0, n) = slice(b, 0, n)
        /\ IF n = Len(a) THEN n < Len(b)
           ELSE n < Len(b) /\ CodePoint[at(a, n)] < CodePoint[at(b, n)]

RECURSIVE sorted(_)
\* sorted(set of str)
sorted(S) ==
    IF S = {} THEN <<>>
    ELSE LET m == CHOOSE x \in S : \A y \in S \ {x} : str_less(x, y)
         IN  <<m>> \o sorted(S \ {m})

RECURSIVE ws_split_from(_, _)
ws_split_from(s, start) ==
    LET begins == {i \in start..(Len(s) - 1) : at(s, i) \notin WHITESPACE}
    IN  IF begins = {} THEN <<>>
        ELSE LET b == Min(begins)
                 e == Min({j \in (b + 1)..Len(s) : j = Len(s) \/ at(s, j) \in WHITESPACE})
             IN  <<slice(s, b, e)>> \o ws_split_from(s, e)

\* str.split() without a separator: the runs of non-blank characters
ws_split(s) == ws_split_from(s, 0)

RECURSIVE keep_word_and_space(_)
\* re.sub(r"[^\w\s]", "", s)
keep_word_and_space(s) ==
    IF Len(s) = 0 THEN s
    ELSE IF Len(s) = 1 THEN (IF is_word_char(s) \/ s \in WHITESPACE THEN s ELSE "")
    ELSE keep_word_and_space(slice(s, 0, Len(s) \div 2))
            \o keep_word_and_space(slice(s, Len(s) \div 2, Len(s)))

\* the positions at which the regular expression \b matches in text
word_boundary(text, p) ==
    (p > 0 /\ is_word_char(at(text, p - 1))) # (p < Len(text) /\ is_word_char(at(text, p)))

\* the end of the run of digits that starts at i (i itself when there is none)
digits_end(text, i) == Max({j \in i..Len(text) : all_digits(text, i, j)})

\* the end of the run of blanks that starts at i: the regular expression \s*
blanks_end(text, i) ==
    Max({j \in i..Len(text) : \A n \in i..(j - 1) : at(text, n) \in WHITESPACE})

\* text[i:].startswith(k)
starts_at(text, i, k) == i >= 0 /\ i + Len(k) <= Len(text) /\ slice(text, i, i + Len(k)) = k

\* the end of the first alternative of (k1|k2|...) found at i, or -1
alt_end(text, i, alts) ==
    IF i < 0 \/ ~\E n \in 1..Len(alts) : starts_at(text, i, alts[n]) THEN -1
    ELSE i + Len(alts[Min({n \in 1..Len(alts) : starts_at(text, i, alts[n])})])

\* the end of \d+ found at i, or -1
number_end(text, i) ==
    IF i < 0 \/ i >= Len(text) \/ ~isdigit(at(text, i)) THEN -1 ELSE digits_end(text, i)

\* the end of \s* found at i, or -1 when i is -1
skip_blanks(text, i) == IF i < 0 THEN -1 ELSE blanks_end(text, i)

\* the end of an optional literal k? found at i
optional_end(text, i, k) == IF starts_at(text, i, k) THEN i + Len(k) ELSE i

\* a row that differs from r in the columns of d
With(r, d) == d @@ r

\* F of the value v: the value is named once and read as often as F needs it
Let(v, F(_)) == F(v)

\* F of two values
Let2(v, w, F(_, _)) == F(v, w)

\* dict[k] = v
dict_set(d, k, v) == [x \in (DOMAIN d) \cup {k} |-> IF x = k THEN v ELSE d[x]]

EmptyDict == [x \in {} |-> 0]

\* ------------------------------------------------------------------------
\* Step 2.2: constants and reference tables
\* ------------------------------------------------------------------------
NA_VALUE == "__NA__"

REMOTE_KEYWORDS == <<"remote", "work from home", "wfh", "fully remote", "hybrid">>

\* The currency symbols outside ASCII are left out: the descriptions are ASCII.
SALARY_CONTEXT_KEYWORDS ==
    <<"$",
      "usd", "eur", "euro", "gbp", "pound", "aud", "cad", "jpy", "yen", "cny", "yuan",
      "inr", "rub", "krw", "chf", "sek", "nok", "dkk", "pln", "czk", "huf">>

\* "euro/month" with the euro sign is left out: the descriptions are ASCII.
SALARY_INDICATORS ==
    <<"salary", "salaries", "pay", "compensation",
      "wage", "package", "remuneration",
      "brutto", "netto", "gehalt",
      "per month", "per year", "annually", "monthly",
      "$/year">>

NON_SALARY_CONTEXT ==
    <<"arr", "revenue", "funding", "series",
      "valuation", "investor", "financing",
      "customers", "market", "growth",
      "raised", "million", "billion",
      "allowance", "packaging", "bonus",
      "incentive", "benefit", "p/a">>

\* column country_name of data_reference/countries.csv
countries_df == <<"Vietnam", "France", NaN, "United States", "France">>

\* rows of data_reference/city_alias_reference.csv
city_alias_df ==
    << [alias |-> "Ho Chi Minh City", canonical_city |-> "Ho Chi Minh City"],
       [alias |-> "Sai-Gon",          canonical_city |-> "Ho Chi Minh City"],
       [alias |-> "Hanoi",            canonical_city |-> "Ha Noi"],
       [alias |-> "Paris",            canonical_city |-> "Paris"],
       [alias |-> "HANOI",            canonical_city |-> "Hanoi"],
       [alias |-> "Lyon",             canonical_city |-> "Lyon"],
       [alias |-> "Gotham",           canonical_city |-> "Gotham City"] >>

\* rows of data_reference/skill_mapping.csv
skill_mapping_csv ==
    << [canonical_skill |-> "SQL", skill_category |-> "Database",
        aliases |-> "sql|mysql", strong_terms |-> NaN, exclude_terms |-> NaN],
       [canonical_skill |-> "Python ", skill_category |-> " Programming",
        aliases |-> "Python | py3", strong_terms |-> NaN, exclude_terms |-> NaN],
       [canonical_skill |-> "Spark", skill_category |-> "__NA__",
        aliases |-> "spark|pyspark", strong_terms |-> "Apache Spark|pyspark",
        exclude_terms |-> NaN],
       [canonical_skill |-> "Excel", skill_category |-> NaN,
        aliases |-> "excel", strong_terms |-> NaN, exclude_terms |-> "excellent"],
       [canonical_skill |-> "R", skill_category |-> "Programming",
        aliases |-> "r", strong_terms |-> NaN, exclude_terms |-> NaN] >>

\* rows of data_reference/education_level_mapping.csv
edu_map_df ==
    << [education_level |-> "Master",   keywords |-> "master|msc"],
       [education_level |-> "Bachelor", keywords |-> "Bachelor | bsc|degree"],
       [education_level |-> "PhD",      keywords |-> "phd|doctorate"] >>

\* rows of data_reference/industry_mapping.csv
industry_df ==
    << [industry |-> "Finance",    keywords |-> "fintech|bank"],
       [industry |-> "Technology", keywords |-> "software|saas"] >>

\* rows of data_reference/company_size_mapping.csv
size_df ==
    << [company_size |-> "Startup",    keywords |-> "startup|start-up"],
       [company_size |-> "Enterprise", keywords |-> "enterprise|multinational"] >>

\* rows of data_reference/employment_type_mapping.csv
emp_map_df ==
    << [employment_type |-> "Full-time",  keywords |-> "full-time|full time|permanent"],
       [employment_type |-> "Internship", keywords |-> "internship|intern"] >>

\* rows of data_reference/job_level_mapping.csv
level_df ==
    << [level |-> "Senior", keywords |-> "senior|sr."],
       [level |-> "Junior", keywords |-> "junior|entry level"],
       [level |-> "Intern", keywords |-> "intern"] >>

RECURSIVE country_lookup_from(_, _)
country_lookup_from(names, lookup) ==
    IF names = <<>> THEN lookup
    ELSE IF isna(Head(names)) \/ \E n \in 1..Len(lookup) : lookup[n].name = Head(names)
    THEN country_lookup_from(Tail(names), lookup)
    ELSE country_lookup_from(Tail(names),
             Append(lookup, [key |-> lower(Head(names)), name |-> Head(names)]))

\* {c.lower(): c for c in countries_df["country_name"].dropna().unique()}, in
\* insertion order; the names differ in more than case, so no key repeats
COUNTRY_LOOKUP == country_lookup_from(countries_df, <<>>)

\* normalize_text of step 2.2
normalize_text_s22(x) == lower(join(" ", ws_split(keep_word_and_space(x))))

RECURSIVE city_alias_lookup_from(_, _)
city_alias_lookup_from(rows, lookup) ==
    IF rows = <<>> THEN lookup
    ELSE LET k == normalize_text_s22(Head(rows).alias)
             v == Head(rows).canonical_city
         IN  IF \E n \in 1..Len(lookup) : lookup[n].key = k
             THEN city_alias_lookup_from(Tail(rows),
                      [n \in 1..Len(lookup) |->
                          IF lookup[n].key = k THEN [key |-> k, canonical |-> v]
                          ELSE lookup[n]])
             ELSE city_alias_lookup_from(Tail(rows),
                      Append(lookup, [key |-> k, canonical |-> v]))

\* {normalize_text(row.alias): row.canonical_city for row in ...}, in insertion
\* order: a key that repeats keeps its place and takes the later value
CITY_ALIAS_LOOKUP == city_alias_lookup_from(city_alias_df, <<>>)

\* DataFrame.fillna(v) on one cell
fillna(cell, v) == IF isna(cell) THEN v ELSE cell

\* skill_mapping.csv after .fillna("")
skill_map_df ==
    [n \in 1..Len(skill_mapping_csv) |->
        [c \in DOMAIN skill_mapping_csv[n] |-> fillna(skill_mapping_csv[n][c], "")]]

split_terms(x) ==
    LET parts == split(x, "|")
    IN  SelectSeq([i \in 1..Len(parts) |-> strip(parts[i])], LAMBDA t : t # "")

SKILL_MAPPING ==
    [n \in 1..Len(skill_map_df) |->
        [canonical |-> skill_map_df[n].canonical_skill,
         category  |-> skill_map_df[n].skill_category,
         aliases   |-> split_terms(lower(skill_map_df[n].aliases)),
         strong    |-> split_terms(lower(skill_map_df[n].strong_terms)),
         exclude   |-> split_terms(lower(skill_map_df[n].exclude_terms))]]

RECURSIVE skill_to_category_s22_from(_, _)
skill_to_category_s22_from(mapping, d) ==
    IF mapping = <<>> THEN d
    ELSE skill_to_category_s22_from(Tail(mapping),
             dict_set(d, Head(mapping).canonical, Head(mapping).category))

\* SKILL_TO_CATEGORY of step 2.2: canonical skill -> skill category
SKILL_TO_CATEGORY_s22 == skill_to_category_s22_from(SKILL_MAPPING, EmptyDict)

\* [k.strip() for k in row["keywords"].lower().split("|")]
keyword_list(keywords) ==
    LET parts == split(lower(keywords), "|")
    IN  [i \in 1..Len(parts) |-> strip(parts[i])]

EDU_MAPPING ==
    [n \in 1..Len(edu_map_df) |->
        [value |-> edu_map_df[n].education_level,
         keywords |-> keyword_list(edu_map_df[n].keywords)]]

INDUSTRY_MAPPING ==
    [n \in 1..Len(industry_df) |->
        [value |-> industry_df[n].industry,
         keywords |-> keyword_list(industry_df[n].keywords)]]

COMPANY_SIZE_MAPPING ==
    [n \in 1..Len(size_df) |->
        [value |-> size_df[n].company_size,
         keywords |-> keyword_list(size_df[n].keywords)]]

EMPLOYMENT_MAPPING ==
    [n \in 1..Len(emp_map_df) |->
        [value |-> emp_map_df[n].employment_type,
         keywords |-> keyword_list(emp_map_df[n].keywords)]]

LEVEL_MAPPING ==
    [n \in 1..Len(level_df) |->
        [value |-> level_df[n].level,
         keywords |-> keyword_list(level_df[n].keywords)]]

\* ------------------------------------------------------------------------
\* Step 2.2: the extractors
\* ------------------------------------------------------------------------
\* normalize_currency of step 2.2 (the keys outside ASCII are left out)
normalize_currency_s22(c) ==
    CASE c \in {"eur", "euro"}  -> "EUR"
      [] c \in {"$", "usd"}     -> "USD"
      [] c \in {"gbp", "pound"} -> "GBP"
      [] c \in {"jpy", "yen"}   -> "JPY"
      [] OTHER                  -> upper(c)

extract_remote(text) == contains_any(text, REMOTE_KEYWORDS)

extract_country(text) ==
    IF \E n \in 1..Len(COUNTRY_LOOKUP) : contains(text, COUNTRY_LOOKUP[n].key)
    THEN COUNTRY_LOOKUP[Min({n \in 1..Len(COUNTRY_LOOKUP) :
                                contains(text, COUNTRY_LOOKUP[n].key)})].name
    ELSE None

extract_city(text) ==
    Let(CITY_ALIAS_LOOKUP, LAMBDA lookup :
        Let({n \in 1..Len(lookup) : contains(text, lookup[n].key)}, LAMBDA found :
            IF found = {} THEN None ELSE lookup[Min(found)].canonical))

\* has(val) of extract_salary_from_text
has(val) == val # NA_VALUE /\ val \notin {None, ""}

RECURSIVE find_all(_, _, _)
\* the occurrences of k found by the "while True" loop, as (idx, idx + len(k), k)
find_all(text, k, start) ==
    LET idx == find(text, k, start)
    IN  IF idx = -1 THEN <<>>
        ELSE <<[start |-> idx, end |-> idx + Len(k), cur |-> k]>>
                \o find_all(text, k, idx + Len(k))

currency_hits(text) ==
    Flatten([n \in 1..Len(SALARY_CONTEXT_KEYWORDS) |->
                find_all(text, SALARY_CONTEXT_KEYWORDS[n], 0)])

\* left and right after the two "while" loops that widen the window over digits
window_left(text, start) ==
    Min({l \in 0..Max({0, start - 20}) : all_digits(text, l, Max({0, start - 20}))})

window_right(text, end) ==
    Max({r \in Min({Len(text), end + 20})..Len(text) :
            all_digits(text, Min({Len(text), end + 20}), r)})

RECURSIVE thousands_end(_, _)
\* the end of (?:[.,]\d{3})* found at j
thousands_end(w, j) ==
    IF j + 4 <= Len(w) /\ at(w, j) \in {".", ","} /\ all_digits(w, j + 1, j + 4)
    THEN thousands_end(w, j + 4)
    ELSE j

\* the end of \d{1,3}(?:[.,]\d{3})+ found at i, or -1
grouped_number_end(w, i) ==
    LET heads == {d \in 1..3 : /\ i + d <= Len(w)
                               /\ all_digits(w, i, i + d)
                               /\ thousands_end(w, i + d) > i + d}
    IN  IF heads = {} THEN -1 ELSE thousands_end(w, i + Max(heads))

RECURSIVE findall_numbers(_, _)
\* re.findall(r'\d{1,3}(?:[.,]\d{3})+|\d+', w) from position pos on
findall_numbers(w, pos) ==
    Let({i \in pos..(Len(w) - 1) : isdigit(at(w, i))}, LAMBDA starts :
        IF starts = {} THEN <<>>
        ELSE Let(Min(starts), LAMBDA i :
                Let(grouped_number_end(w, i), LAMBDA grouped :
                    Let(IF grouped # -1 THEN grouped ELSE digits_end(w, i), LAMBDA e :
                        <<slice(w, i, e)>> \o findall_numbers(w, e)))))

\* the hits whose anchor zone holds a salary indicator and whose window holds
\* no company or funding context, each with the numbers of its window
accepted_hits(text) ==
    LET scan(h) ==
            Let(window_left(text, h.start), LAMBDA left :
                Let(window_right(text, h.end), LAMBDA right :
                    [cur |-> h.cur,
                     ok |-> /\ contains_any(slice(text, Max({0, left - 30}), right),
                                            SALARY_INDICATORS)
                            /\ ~contains_any(slice(text, left, right), NON_SALARY_CONTEXT),
                     window |-> slice(text, left, right)]))
    IN  Let(currency_hits(text), LAMBDA hits :
            Let(SelectSeq([n \in 1..Len(hits) |-> scan(hits[n])], LAMBDA s : s.ok),
                LAMBDA kept :
                    [n \in 1..Len(kept) |->
                        [cur |-> kept[n].cur, nums |-> findall_numbers(kept[n].window, 0)]]))

\* the values of one window: int(n.replace(".", "").replace(",", "")) if >= 100
window_values(nums) ==
    SelectSeq([n \in 1..Len(nums) |-> to_int(remove_chars(nums[n], {".", ","}))],
              LAMBDA v : v >= 100)

\* steps 1 and 2 of extract_salary_from_text, which read the text only:
\* currency_hits, extracted_values and detected_currency
salary_scan(desc) ==
    Let(lower(desc), LAMBDA text :
        Let(accepted_hits(text), LAMBDA accepted :
            Let({n \in 1..Len(accepted) : accepted[n].nums # <<>>}, LAMBDA with_nums :
                [hits |-> currency_hits(text) # <<>>,
                 extracted_values |->
                     Flatten([n \in 1..Len(accepted) |-> window_values(accepted[n].nums)]),
                 detected_currency |->
                     IF with_nums = {} THEN NA_VALUE
                     ELSE normalize_currency_s22(accepted[Min(with_nums)].cur)])))

\* re.search(r'\bR\b', role_context) or a strong R context in the text
match_r_skill(text, role_context) ==
    \/ \E p \in 0..(Len(role_context) - 1) :
           /\ at(role_context, p) = "R"
           /\ word_boundary(role_context, p)
           /\ word_boundary(role_context, p + 1)
    \/ contains_any(text, <<"rstudio", "rlang", "r programming">>)

extract_skills(desc, role_context) ==
    Let(lower(desc), LAMBDA text :
        Let(SKILL_MAPPING, LAMBDA mapping :
            Let({mapping[n].canonical : n \in
                    {n \in 1..Len(mapping) :
                        /\ IF mapping[n].canonical = "R"
                           THEN match_r_skill(text, role_context)
                           ELSE contains_any(text, mapping[n].aliases)
                        /\ ~(/\ mapping[n].strong # <<>>
                             /\ ~contains_any(text, mapping[n].strong))
                        /\ ~(/\ mapping[n].exclude # <<>>
                             /\ contains_any(text, mapping[n].exclude))}},
                LAMBDA found :
                    IF found = {} THEN NA_VALUE ELSE join(" | ", sorted(found)))))

\* the first row of a keyword mapping one of whose keywords is in the text
first_keyword_row(desc, mapping) ==
    Let(lower(desc), LAMBDA text :
        Let({n \in 1..Len(mapping) : contains_any(text, mapping[n].keywords)}, LAMBDA rows :
            IF rows = {} THEN NA_VALUE ELSE mapping[Min(rows)].value))

extract_education_level(desc) == first_keyword_row(desc, EDU_MAPPING)

extract_industry(desc) == first_keyword_row(desc, INDUSTRY_MAPPING)

extract_employment_type(desc) == first_keyword_row(desc, EMPLOYMENT_MAPPING)

extract_job_level(desc) == first_keyword_row(desc, LEVEL_MAPPING)

EXP_CONTEXT_KEYWORDS ==
    <<"experience", "exp", "year", "years", "yr", "yrs", "level", "seniority">>

\* LEVEL_YEAR_MAP.items(), in insertion order
LEVEL_YEAR_MAP ==
    <<[kw |-> "en", years |-> 0], [kw |-> "mi", years |-> 2],
      [kw |-> "se", years |-> 5], [kw |-> "ex", years |-> 8]>>

EXCLUDE_CONTEXT ==
    <<"venture", "ecosystem", "company", "group", "lab", "studio",
      "english", "language",
      "software engineer", "engineer",
      "asia", "europe",
      "executive", "example">>

COMPANY_CONTEXT ==
    <<"company", "organisation", "organization", "we are",
      "we have", "our company", "our business", "founded",
      "since", "established", "leading", "provider",
      "retailer", "manufacturer", "employees", "stores",
      "countries", "customers", "group", "global", "europe", "worldwide">>

\* text[max(0, start - n):min(len(text), end + n)]
window_around(text, start, end, n) ==
    slice(text, Max({0, start - n}), Min({Len(text), end + n}))

\* some match of \bkw\b has no excluded context and an experience context
level_keyword_hit(text, kw) ==
    \E p \in 0..(Len(text) - Len(kw)) :
        /\ starts_at(text, p, kw)
        /\ word_boundary(text, p)
        /\ word_boundary(text, p + Len(kw))
        /\ Let(window_around(text, p, p + Len(kw), 30), LAMBDA context :
               /\ ~contains_any(context, EXCLUDE_CONTEXT)
               /\ contains_any(context, <<"experience", "level", "seniority">>))

EXP_PATTERNS == <<"range", "plus", "min", "simple", "range_to">>

\* the match of one of the five patterns that starts at i: its end (-1 when
\* there is none) and the group that int() reads
exp_match(kind, text, i) ==
    CASE kind = "range" ->
            \* (\d+)\s*[-]\s*(\d+)\s*(year|yr)
            Let(number_end(text, i), LAMBDA e1 :
                Let(skip_blanks(text, e1), LAMBDA a :
                    Let(IF starts_at(text, a, "-") THEN a + 1 ELSE -1, LAMBDA b :
                        [end |-> alt_end(text,
                                         skip_blanks(text, number_end(text, skip_blanks(text, b))),
                                         <<"year", "yr">>),
                         from |-> i, to |-> e1])))
      [] kind = "plus" ->
            \* (\d+)\s*\+\s*(year|yr)
            Let(number_end(text, i), LAMBDA e1 :
                Let(skip_blanks(text, e1), LAMBDA a :
                    Let(IF starts_at(text, a, "+") THEN a + 1 ELSE -1, LAMBDA b :
                        [end |-> alt_end(text, skip_blanks(text, b), <<"year", "yr">>),
                         from |-> i, to |-> e1])))
      [] kind = "min" ->
            \* (at least|minimum|min\.?)\s*(\d+)\s*(year|yr)
            Let(skip_blanks(text, alt_end(text, i, <<"at least", "minimum", "min.", "min">>)),
                LAMBDA a :
                    Let(number_end(text, a), LAMBDA e1 :
                        [end |-> alt_end(text, skip_blanks(text, e1), <<"year", "yr">>),
                         from |-> a, to |-> e1]))
      [] kind = "simple" ->
            \* (\d+)\s*(year|yr)s?\s*(of)?\s*(experience|exp)
            Let(number_end(text, i), LAMBDA e1 :
                Let(alt_end(text, skip_blanks(text, e1), <<"year", "yr">>), LAMBDA a :
                    Let(IF a = -1 THEN -1 ELSE skip_blanks(text, optional_end(text, a, "s")),
                        LAMBDA b :
                            Let(IF b = -1 THEN -1
                                ELSE skip_blanks(text, optional_end(text, b, "of")),
                                LAMBDA c :
                                    [end |-> alt_end(text, c, <<"experience", "exp">>),
                                     from |-> i, to |-> e1]))))
      [] kind = "range_to" ->
            \* (\d+)\s*(to)\s*(\d+)\s*(year|years|yr|yrs)
            Let(number_end(text, i), LAMBDA e1 :
                Let(skip_blanks(text, e1), LAMBDA a :
                    Let(IF starts_at(text, a, "to") THEN a + 2 ELSE -1, LAMBDA b :
                        [end |-> alt_end(text,
                                         skip_blanks(text, number_end(text, skip_blanks(text, b))),
                                         <<"year", "years", "yr", "yrs">>),
                         from |-> i, to |-> e1])))

RECURSIVE exp_finditer(_, _, _)
\* re.finditer(p, text) from position pos on: (start, end, years) of each match
exp_finditer(kind, text, pos) ==
    Let({i \in pos..(Len(text) - 1) : exp_match(kind, text, i).end # -1}, LAMBDA starts :
        IF starts = {} THEN <<>>
        ELSE Let(exp_match(kind, text, Min(starts)), LAMBDA m :
                <<[start |-> Min(starts), end |-> m.end,
                   years |-> to_int(slice(text, m.from, m.to))]>>
                    \o exp_finditer(kind, text, m.end)))

\* variant: without the upper bound of 20 years
extract_experience_years_unbounded(desc) ==
    Let(lower(desc), LAMBDA text :
        IF ~contains_any(text, EXP_CONTEXT_KEYWORDS) THEN NA_VALUE
        ELSE Let({n \in 1..Len(LEVEL_YEAR_MAP) : level_keyword_hit(text, LEVEL_YEAR_MAP[n].kw)},
                 LAMBDA levels :
            IF levels # {} THEN int_to_str(LEVEL_YEAR_MAP[Min(levels)].years)
            ELSE Let(Flatten([n \in 1..Len(EXP_PATTERNS) |->
                                 exp_finditer(EXP_PATTERNS[n], text, 0)]), LAMBDA matches :
                Let({matches[n].years : n \in
                        {n \in 1..Len(matches) :
                            ~contains_any(window_around(text, matches[n].start,
                                                        matches[n].end, 40),
                                          COMPANY_CONTEXT)}}, LAMBDA candidates :
                    IF candidates = {} THEN NA_VALUE
                    ELSE Let(Min(candidates), LAMBDA years :
                            IF years <= 0 THEN "0"
                            ELSE int_to_str(years))))))

extract_experience_years(desc) ==
    Let(lower(desc), LAMBDA text :
        IF ~contains_any(text, EXP_CONTEXT_KEYWORDS) THEN NA_VALUE
        ELSE Let({n \in 1..Len(LEVEL_YEAR_MAP) : level_keyword_hit(text, LEVEL_YEAR_MAP[n].kw)},
                 LAMBDA levels :
            IF levels # {} THEN int_to_str(LEVEL_YEAR_MAP[Min(levels)].years)
            ELSE Let(Flatten([n \in 1..Len(EXP_PATTERNS) |->
                                 exp_finditer(EXP_PATTERNS[n], text, 0)]), LAMBDA matches :
                Let({matches[n].years : n \in
                        {n \in 1..Len(matches) :
                            ~contains_any(window_around(text, matches[n].start,
                                                        matches[n].end, 40),
                                          COMPANY_CONTEXT)}}, LAMBDA candidates :
                    IF candidates = {} THEN NA_VALUE
                    ELSE Let(Min(candidates), LAMBDA years :
                            IF years > 20 THEN NA_VALUE
                            ELSE IF years <= 0 THEN "0"
                            ELSE int_to_str(years))))))

HEADCOUNT_UNITS == <<"employees", "people", "staff">>

SIZE_PATTERNS == <<"plus", "over", "more than", "range", "team of">>

\* the match of one of the five headcount patterns that starts at i: its end
\* (-1 when there is none) and max(nums)
size_match(kind, text, i) ==
    CASE kind = "plus" ->
            \* (\d+)\s*\+\s*(employees|people|staff)
            Let(number_end(text, i), LAMBDA e1 :
                Let(skip_blanks(text, e1), LAMBDA a :
                    Let(IF starts_at(text, a, "+") THEN a + 1 ELSE -1, LAMBDA b :
                        [end |-> alt_end(text, skip_blanks(text, b), HEADCOUNT_UNITS),
                         nums |-> {<<i, e1>>}])))
      [] kind \in {"over", "more than"} ->
            \* over\s*(\d+)\s*(employees|people|staff), and the same with "more than"
            Let(IF starts_at(text, i, kind) THEN skip_blanks(text, i + Len(kind)) ELSE -1,
                LAMBDA a :
                    Let(number_end(text, a), LAMBDA e1 :
                        [end |-> alt_end(text, skip_blanks(text, e1), HEADCOUNT_UNITS),
                         nums |-> {<<a, e1>>}]))
      [] kind = "range" ->
            \* (\d+)\s*-\s*(\d+)\s*(employees|people|staff)
            Let(number_end(text, i), LAMBDA e1 :
                Let(skip_blanks(text, e1), LAMBDA a :
                    Let(IF starts_at(text, a, "-") THEN skip_blanks(text, a + 1) ELSE -1,
                        LAMBDA b :
                            Let(number_end(text, b), LAMBDA e2 :
                                [end |-> alt_end(text, skip_blanks(text, e2), HEADCOUNT_UNITS),
                                 nums |-> {<<i, e1>>, <<b, e2>>}]))))
      [] kind = "team of" ->
            \* team of\s*(\d+)
            Let(IF starts_at(text, i, kind) THEN skip_blanks(text, i + Len(kind)) ELSE -1,
                LAMBDA a :
                    Let(number_end(text, a), LAMBDA e1 : [end |-> e1, nums |-> {<<a, e1>>}]))

\* the size bucket of a headcount
size_bucket(n) ==
    IF n < 10 THEN "Startup"
    ELSE IF n < 50 THEN "Small"
    ELSE IF n < 250 THEN "Medium"
    ELSE IF n < 1000 THEN "Large"
    ELSE "Enterprise"

extract_company_size(desc) ==
    Let(lower(desc), LAMBDA text :
        Let([n \in 1..Len(SIZE_PATTERNS) |->
                {i \in 0..(Len(text) - 1) : size_match(SIZE_PATTERNS[n], text, i).end # -1}],
            LAMBDA found :
                Let({n \in 1..Len(SIZE_PATTERNS) : found[n] # {}}, LAMBDA kinds :
                    IF kinds # {}
                    THEN Let(size_match(SIZE_PATTERNS[Min(kinds)], text, Min(found[Min(kinds)])),
                             LAMBDA m :
                                size_bucket(Max({to_int(slice(text, g[1], g[2])) : g \in m.nums})))
                    ELSE first_keyword_row(text, COMPANY_SIZE_MAPPING))))

\* the descriptions of the mapped files of the model
Descriptions ==
    { "Salary: $80K-$100K per year",
      "Senior Data Engineer, minimum 6 years of experience",
      "Remote role in Hanoi, Vietnam. Full-time. MSc degree. Python, SQL and apache spark; excel.",
      "We are a fintech startup, team of 8. Pay 1,500 - 2,000 usd monthly. 3+ years exp",
      "Series B funding raised $5,000,000; salary reviewed annually",
      "excellent sql, wfh, wage 3.000 pound",
      "Wage 500 usd or 20.000.000 usd",
      "Founded in 1999, over 25 years of experience in retail",
      "Minimum 25 years experience or 30+ years",
      "Seniority level: SE",
      "2-4 yrs of exp, at least 00 years",
      "Great team and culture",
      "__NA__" }

\* desc_lower[:300]
role_context_of(desc_lower) == slice(desc_lower, 0, Min({300, Len(desc_lower)}))

\* what the extractors return on one description, in the order of the blocks
\* of the loop that call them; salary holds the part of
\* extract_salary_from_text that reads the text only
extract_signals(d) ==
    Let(lower(d), LAMBDA desc_lower :
        [city            |-> extract_city(desc_lower),
         country         |-> extract_country(desc_lower),
         remote          |-> extract_remote(desc_lower),
         salary          |-> salary_scan(d),
         exp_years       |-> extract_experience_years(d),
         education       |-> extract_education_level(d),
         industry        |-> extract_industry(desc_lower),
         skills          |-> extract_skills(d, role_context_of(desc_lower)),
         company_size    |-> extract_company_size(desc_lower),
         employment_type |-> extract_employment_type(desc_lower),
         level           |-> extract_job_level(desc_lower)])

\* The extractors are functions of the description alone: what they return
\* for a description of the model is computed once and looked up afterwards.
Signals == [d \in Descriptions |-> extract_signals(d)]

\* the signals of a description: looked up, or computed
signals_of(desc) == IF desc \in Descriptions THEN Signals[desc] ELSE extract_signals(desc)

\* variant: the range is taken when one of the two salaries is absent
salary_decision_either(scan, cur_min, cur_max) ==
    Let([min |-> cur_min, max |-> cur_max, currency |-> NA_VALUE, filled |-> FALSE],
        LAMBDA unfilled :
            IF ~scan.hits THEN unfilled
            ELSE IF scan.extracted_values = <<>> THEN unfilled
            ELSE Let({scan.extracted_values[n] : n \in 1..Len(scan.extracted_values)},
                     LAMBDA values :
                        IF Max(values) - Min(values) > 10000000 THEN unfilled
                        ELSE IF ~has(cur_min) \/ ~has(cur_max)
                        THEN [min |-> Min(values), max |-> Max(values),
                              currency |-> scan.detected_currency, filled |-> TRUE]
                        ELSE unfilled))

\* variant: the spread of the values is not looked at
salary_decision_no_ceiling(scan, cur_min, cur_max) ==
    Let([min |-> cur_min, max |-> cur_max, currency |-> NA_VALUE, filled |-> FALSE],
        LAMBDA unfilled :
            IF ~scan.hits THEN unfilled
            ELSE IF scan.extracted_values = <<>> THEN unfilled
            ELSE Let({scan.extracted_values[n] : n \in 1..Len(scan.extracted_values)},
                     LAMBDA values :
                        IF ~has(cur_min) /\ ~has(cur_max)
                        THEN [min |-> Min(values), max |-> Max(values),
                              currency |-> scan.detected_currency, filled |-> TRUE]
                        ELSE unfilled))

\* steps 3 to 5 of extract_salary_from_text: the result tuple
\* (min, max, currency, filled) from what the scan of the text found
salary_decision(scan, cur_min, cur_max) ==
    Let([min |-> cur_min, max |-> cur_max, currency |-> NA_VALUE, filled |-> FALSE],
        LAMBDA unfilled :
            IF ~scan.hits THEN unfilled
            ELSE IF scan.extracted_values = <<>> THEN unfilled
            ELSE Let({scan.extracted_values[n] : n \in 1..Len(scan.extracted_values)},
                     LAMBDA values :
                        IF Max(values) - Min(values) > 10000000 THEN unfilled
                        ELSE IF ~has(cur_min) /\ ~has(cur_max)
                        THEN [min |-> Min(values), max |-> Max(values),
                              currency |-> scan.detected_currency, filled |-> TRUE]
                        ELSE unfilled))

extract_salary_from_text(desc, cur_min, cur_max) ==
    salary_decision(salary_scan(desc), cur_min, cur_max)

\* ------------------------------------------------------------------------
\* Step 2.2: extract_from_description
\* ------------------------------------------------------------------------
\* the texts pandas.read_csv takes for a missing cell
STR_NA_VALUES ==
    {"", "#N/A", "#N/A N/A", "#NA", "-1.#IND", "-1.#QNAN", "-NaN", "-nan", "1.#IND",
     "1.#QNAN", "<NA>", "N/A", "NA", "NULL", "NaN", "None", "n/a", "nan", "null"}

\* pd.read_csv(file_path, dtype=str): every cell is its text, or NaN
read_csv(file) ==
    [i \in 1..Len(file) |->
        [c \in DOMAIN file[i] |-> IF file[i][c] \in STR_NA_VALUES THEN NaN ELSE file[i][c]]]

\* df.to_csv(...): a missing cell is written as the empty text
to_csv(frame) ==
    [i \in 1..Len(frame) |->
        [c \in DOMAIN frame[i] |-> IF isna(frame[i][c]) THEN "" ELSE frame[i][c]]]

\* df.fillna(NA_VALUE)
fillna_frame(frame, v) ==
    [i \in 1..Len(frame) |-> [c \in DOMAIN frame[i] |-> fillna(frame[i][c], v)]]

\* the counters of extract_from_description, all at 0
ZeroFilled ==
    [filled_city |-> 0, filled_country |-> 0, filled_remote |-> 0,
     filled_salary |-> 0, filled_currency |-> 0, filled_skills |-> 0,
     filled_skill_category |-> 0, filled_exp_years |-> 0, filled_education |-> 0,
     filled_industry |-> 0, filled_company_size |-> 0, filled_employment |-> 0,
     filled_level |-> 0]

\* "col in df.columns and df.at[i, col] == NA_VALUE"
is_na_column(st, col) == col \in DOMAIN st.row /\ st.row[col] = NA_VALUE

\* "df.at[i, col] = value" followed by "counter += 1"
fill(st, col, value, counter) ==
    [st EXCEPT !.row[col] = value, !.filled[counter] = @ + 1]

fill_city(st, sig) ==
    IF is_na_column(st, "city")
    THEN IF truthy(sig.city) THEN fill(st, "city", sig.city, "filled_city") ELSE st
    ELSE st

fill_country(st, sig) ==
    IF is_na_column(st, "country")
    THEN IF truthy(sig.country) THEN fill(st, "country", sig.country, "filled_country") ELSE st
    ELSE st

\* variant: the "== NA_VALUE" test on remote_option is missing
fill_remote_unguarded(st, sig) ==
    IF "remote_option" \in DOMAIN st.row /\ sig.remote
    THEN fill(st, "remote_option", "true", "filled_remote")
    ELSE st

fill_remote(st, sig) ==
    IF is_na_column(st, "remote_option") /\ sig.remote
    THEN fill(st, "remote_option", "true", "filled_remote")
    ELSE st

\* The cells take the integers lo and hi, which to_csv writes as decimal text.
fill_salary(st, sig) ==
    Let(salary_decision(sig.salary, st.row["min_salary"], st.row["max_salary"]), LAMBDA res :
        IF res.filled
        THEN [st EXCEPT
                !.row["min_salary"] = int_to_str(res.min),
                !.row["max_salary"] = int_to_str(res.max),
                !.row["currency"] = IF is_na_column(st, "currency") THEN res.currency ELSE @,
                !.filled["filled_salary"] = @ + 1,
                !.filled["filled_currency"] = @ + 1]
        ELSE st)

fill_exp_years(st, sig) ==
    IF is_na_column(st, "required_exp_years")
    THEN IF sig.exp_years # NA_VALUE
         THEN fill(st, "required_exp_years", sig.exp_years, "filled_exp_years") ELSE st
    ELSE st

fill_education(st, sig) ==
    IF is_na_column(st, "education_level")
    THEN IF sig.education # NA_VALUE
         THEN fill(st, "education_level", sig.education, "filled_education") ELSE st
    ELSE st

fill_industry(st, sig) ==
    IF is_na_column(st, "industry")
    THEN IF sig.industry # NA_VALUE
         THEN fill(st, "industry", sig.industry, "filled_industry") ELSE st
    ELSE st

fill_skill_name(st, sig) ==
    IF is_na_column(st, "skill_name")
    THEN IF sig.skills # NA_VALUE
         THEN fill(st, "skill_name", sig.skills, "filled_skills") ELSE st
    ELSE st

\* SKILL_TO_CATEGORY.get(first_skill, NA_VALUE) is stored even when it is NA_VALUE
fill_skill_category(st) ==
    IF is_na_column(st, "skill_category") /\ st.row["skill_name"] # NA_VALUE
    THEN Let(SKILL_TO_CATEGORY_s22, LAMBDA categories :
            Let(split(st.row["skill_name"], " | ")[1], LAMBDA first_skill :
                Let(IF first_skill \in DOMAIN categories
                    THEN categories[first_skill] ELSE NA_VALUE, LAMBDA category :
                        [st EXCEPT
                           !.row["skill_category"] = category,
                           !.filled["filled_skill_category"] =
                               IF category # NA_VALUE THEN @ + 1 ELSE @])))
    ELSE st

fill_company_size(st, sig) ==
    IF is_na_column(st, "company_size")
    THEN IF sig.company_size # NA_VALUE
         THEN fill(st, "company_size", sig.company_size, "filled_company_size") ELSE st
    ELSE st

fill_employment(st, sig) ==
    IF is_na_column(st, "employment_type")
    THEN IF sig.employment_type # NA_VALUE
         THEN fill(st, "employment_type", sig.employment_type, "filled_employment") ELSE st
    ELSE st

fill_level(st, sig) ==
    IF is_na_column(st, "level")
    THEN IF sig.level # NA_VALUE THEN fill(st, "level", sig.level, "filled_level") ELSE st
    ELSE st

\* variant: the skill_category block comes before the skill_name block
fill_fields_category_first(st, sig) ==
    LET s1  == fill_city(st, sig)
        s2  == fill_country(s1, sig)
        s3  == fill_remote(s2, sig)
        s4  == fill_salary(s3, sig)
        s5  == fill_exp_years(s4, sig)
        s6  == fill_education(s5, sig)
        s7  == fill_industry(s6, sig)
        s8  == fill_skill_category(s7)
        s9  == fill_skill_name(s8, sig)
        s10 == fill_company_size(s9, sig)
        s11 == fill_employment(s10, sig)
    IN  fill_level(s11, sig)

\* the blocks CITY .. JOB LEVEL of the loop body, in their order
fill_fields(st, sig) ==
    LET s1  == fill_city(st, sig)
        s2  == fill_country(s1, sig)
        s3  == fill_remote(s2, sig)
        s4  == fill_salary(s3, sig)
        s5  == fill_exp_years(s4, sig)
        s6  == fill_education(s5, sig)
        s7  == fill_industry(s6, sig)
        s8  == fill_skill_name(s7, sig)
        s9  == fill_skill_category(s8)
        s10 == fill_company_size(s9, sig)
        s11 == fill_employment(s10, sig)
    IN  fill_level(s11, sig)

\* one iteration of "for i, row in df.iterrows()"; every cell is a str after fillna
extract_row(st) ==
    IF st.row["job_description"] = NA_VALUE THEN st
    ELSE fill_fields(st, signals_of(st.row["job_description"]))

RECURSIVE extract_rows(_, _, _)
\* the loop from row i on: the frame and the counters at its end
extract_rows(frame, filled, i) ==
    IF i > Len(frame) THEN [df |-> frame, filled |-> filled]
    ELSE Let(extract_row([row |-> frame[i], filled |-> filled]), LAMBDA st :
            extract_rows([frame EXCEPT ![i] = st.row], st.filled, i + 1))

\* ------------------------------------------------------------------------
\* Step 2.2: rows of the mapped file
\* ------------------------------------------------------------------------
TARGET_FIELDS ==
    {"city", "country", "remote_option", "min_salary", "max_salary", "currency",
     "required_exp_years", "education_level", "industry", "skill_name",
     "skill_category", "company_size", "employment_type", "level"}

MAPPED_COLUMNS == TARGET_FIELDS \cup {"company_name", "job_description"}

\* every target field is "__NA__"
EmptyMappedRow ==
    [c \in MAPPED_COLUMNS |->
        IF c = "company_name" THEN "Acme"
        ELSE IF c = "job_description" THEN "Great team and culture"
        ELSE NA_VALUE]

\* every target field holds a value that no description of the model yields
FullMappedRow ==
    [c \in MAPPED_COLUMNS |->
        CASE c = "company_name"       -> "Acme"
          [] c = "job_description"    -> "Great team and culture"
          [] c = "city"               -> "Lyon"
          [] c = "country"            -> "Japan"
          [] c = "remote_option"      -> "false"
          [] c = "min_salary"         -> "10"
          [] c = "max_salary"         -> "20"
          [] c = "currency"           -> "CHF"
          [] c = "required_exp_years" -> "9"
          [] c = "education_level"    -> "High School"
          [] c = "industry"           -> "Retail"
          [] c = "skill_name"         -> "Tableau"
          [] c = "skill_category"     -> "BI"
          [] c = "company_size"       -> "Medium"
          [] c = "employment_type"    -> "Part-time"
          [] c = "level"              -> "Lead"]

\* every target field holds one of the two other sentinels
SentinelMappedRow ==
    [c \in MAPPED_COLUMNS |->
        IF c \notin TARGET_FIELDS THEN EmptyMappedRow[c]
        ELSE IF c \in {"city", "skill_name", "currency"} THEN "__UNMATCHED__"
        ELSE "__INVALID__"]

\* what the target fields hold when the file is read
MappedFields ==
    { EmptyMappedRow, FullMappedRow, SentinelMappedRow,
      With(EmptyMappedRow, [min_salary |-> "500"]),
      With(EmptyMappedRow, [max_salary |-> "__INVALID__"]),
      With(EmptyMappedRow, [currency |-> "CHF"]),
      With(EmptyMappedRow, [skill_name |-> "SQL | Excel"]),
      With(EmptyMappedRow, [skill_name |-> "Tableau", city |-> "", level |-> "N/A"]),
      With(EmptyMappedRow, [skill_category |-> "Custom", remote_option |-> "false"]) }

\* the rows the mapped file may hold
MappedRows == { With(r, [job_description |-> d]) : r \in MappedFields, d \in Descriptions }

\* ------------------------------------------------------------------------
\* Step 2.3: reference tables and lookups
\* ------------------------------------------------------------------------
EXP_LEVEL_MAP == [EN |-> "0", MI |-> "2", SE |-> "5", EX |-> "8"]

\* normalize_text of step 2.3. The texts of the model are ASCII, on which the
\* NFKD decomposition and the removal of combining marks change nothing.
normalize_text(x) ==
    IF isna(x) THEN "__NA__"
    ELSE upper(join(" ", ws_split(keep_word_and_space(x))))

\* column city_name of data_reference/cities.csv
cities_df == <<"Hanoi", "Ho Chi Minh City", "Paris", "Lyon">>

\* rows of data_reference/currency_mapping.csv
currency_df ==
    << [currency |-> "usd ", aliases |-> "usd|US Dollar | $"],
       [currency |-> "EUR",  aliases |-> "eur|euro"],
       [currency |-> "GBP",  aliases |-> "gbp|pound"],
       [currency |-> "CHF",  aliases |-> "chf"] >>

RECURSIVE dict_from_pairs(_, _)
\* a dict filled with the (key, value) pairs in their order
dict_from_pairs(pairs, d) ==
    IF pairs = <<>> THEN d
    ELSE dict_from_pairs(Tail(pairs), dict_set(d, Head(pairs)[1], Head(pairs)[2]))

\* alias_norm -> canonical_city
CITY_ALIAS_LOOKUP_s23 ==
    dict_from_pairs([n \in 1..Len(city_alias_df) |->
                        <<normalize_text(city_alias_df[n].alias),
                          city_alias_df[n].canonical_city>>], EmptyDict)

\* norm_name -> official city name
CITY_NAME_LOOKUP ==
    dict_from_pairs([n \in 1..Len(cities_df) |->
                        <<normalize_text(cities_df[n]), cities_df[n]>>], EmptyDict)

\* the (key, value) pairs one row of a mapping file gives: a key for every
\* piece of the "|"-separated cell
row_pairs(cell, key_of(_), value) ==
    LET parts == split(cell, "|")
    IN  [i \in 1..Len(parts) |-> <<key_of(parts[i]), value>>]

strip_lower(a) == lower(strip(a))

CURRENCY_LOOKUP ==
    dict_from_pairs(
        Flatten([n \in 1..Len(currency_df) |->
                    row_pairs(currency_df[n].aliases, strip_lower,
                              upper(strip(currency_df[n].currency)))]),
        EmptyDict)

EMPLOYMENT_TYPE_LOOKUP ==
    dict_from_pairs(
        Flatten([n \in 1..Len(emp_map_df) |->
                    IF isna(emp_map_df[n].keywords) THEN <<>>
                    ELSE row_pairs(emp_map_df[n].keywords, normalize_text,
                                   strip(emp_map_df[n].employment_type))]),
        EmptyDict)

\* pd.read_csv(SKILL_MAPPING_PATH, dtype=str) of step 2.3
skill_df == skill_mapping_csv

SKILL_ALIAS_LOOKUP ==
    dict_from_pairs(
        Flatten([n \in 1..Len(skill_df) |->
                    IF isna(skill_df[n].aliases) THEN <<>>
                    ELSE row_pairs(skill_df[n].aliases, normalize_text,
                                   strip(skill_df[n].canonical_skill))]),
        EmptyDict)

RECURSIVE ordered_dict_from_pairs(_, _)
\* the same dict as a sequence of (key, value) in insertion order
ordered_dict_from_pairs(pairs, d) ==
    IF pairs = <<>> THEN d
    ELSE IF \E n \in 1..Len(d) : d[n][1] = Head(pairs)[1]
    THEN ordered_dict_from_pairs(Tail(pairs),
             [n \in 1..Len(d) |-> IF d[n][1] = Head(pairs)[1] THEN Head(pairs) ELSE d[n]])
    ELSE ordered_dict_from_pairs(Tail(pairs), Append(d, Head(pairs)))

\* SKILL_STRONG_LOOKUP.items(): an empty key is not stored
SKILL_STRONG_LOOKUP ==
    ordered_dict_from_pairs(
        SelectSeq(
            Flatten([n \in 1..Len(skill_df) |->
                        IF isna(skill_df[n].strong_terms) THEN <<>>
                        ELSE row_pairs(skill_df[n].strong_terms, normalize_text,
                                       strip(skill_df[n].canonical_skill))]),
            LAMBDA p : p[1] # ""),
        <<>>)

\* ------------------------------------------------------------------------
\* Step 2.3: the normalizers of one value
\* ------------------------------------------------------------------------
\* re.sub(r"\s+", " ", s): every run of blanks becomes one space
collapse_blanks(s) ==
    IF Len(s) = 0 THEN s
    ELSE IF ws_split(s) = <<>> THEN " "
    ELSE (IF at(s, 0) \in WHITESPACE THEN " " ELSE "")
            \o join(" ", ws_split(s))
            \o (IF at(s, Len(s) - 1) \in WHITESPACE THEN " " ELSE "")

RECURSIVE replace_char(_, _, _)
\* s.replace(old, new) for one character old
replace_char(s, old, new) ==
    IF Len(s) = 0 THEN s
    ELSE IF Len(s) = 1 THEN (IF s = old THEN new ELSE s)
    ELSE replace_char(slice(s, 0, Len(s) \div 2), old, new)
            \o replace_char(slice(s, Len(s) \div 2, Len(s)), old, new)

\* the end of '([^']+)' found at i, or -1
quoted_end(s, i) ==
    IF i + 2 < Len(s) /\ at(s, i) = "'" /\ at(s, i + 1) # "'"
          /\ \E j \in (i + 2)..(Len(s) - 1) : at(s, j) = "'"
    THEN 1 + Min({j \in (i + 2)..(Len(s) - 1) : at(s, j) = "'"})
    ELSE -1

\* the end of '([^']+)'\s*: found at i, or -1
quoted_key_end(s, i) ==
    IF quoted_end(s, i) # -1 /\ starts_at(s, blanks_end(s, quoted_end(s, i)), ":")
    THEN blanks_end(s, quoted_end(s, i)) + 1
    ELSE -1

RECURSIVE findall_quoted(_, _, _)
\* re.findall of one of the two patterns from position pos on: the groups
findall_quoted(s, pos, is_key) ==
    LET end_at(i) == IF is_key THEN quoted_key_end(s, i) ELSE quoted_end(s, i)
    IN  Let({i \in pos..(Len(s) - 1) : end_at(i) # -1}, LAMBDA starts :
            IF starts = {} THEN <<>>
            ELSE Let(Min(starts), LAMBDA b :
                    <<slice(s, b + 1, quoted_end(s, b) - 1)>>
                        \o findall_quoted(s, end_at(b), is_key)))

\* "|".join(skills) if skills else "__NA__"
joined_skills(skills) == IF skills # <<>> THEN join("|", skills) ELSE "__NA__"

clean_skill_field_shape(x) ==
    IF isna(x) THEN "__NA__"
    ELSE Let(strip(x), LAMBDA s :
            IF s = "" \/ s = "__NA__" THEN "__NA__"
            ELSE IF starts_at(s, 0, "{") /\ starts_at(s, Len(s) - 1, "}")
            THEN joined_skills(findall_quoted(s, 0, TRUE))
            ELSE IF starts_at(s, 0, "[") /\ starts_at(s, Len(s) - 1, "]")
            THEN joined_skills(findall_quoted(s, 0, FALSE))
            ELSE s)

normalize_company_name(x) ==
    IF isna(x) THEN "__NA__" ELSE collapse_blanks(strip(x))

\* normalize_currency of step 2.3; NaN is not a str and is returned as it is
normalize_currency(x) ==
    IF x = "__NA__" \/ isna(x) THEN x
    ELSE Let2(CURRENCY_LOOKUP, collapse_blanks(replace_char(lower(strip(x)), "_", " ")),
              LAMBDA lookup, s : IF s \in DOMAIN lookup THEN lookup[s] ELSE "__NA__")

\* number of days of a month
days_in_month(y, m) ==
    IF m \in {4, 6, 9, 11} THEN 30
    ELSE IF m # 2 THEN 31
    ELSE IF (y % 4 = 0 /\ y % 100 # 0) \/ y % 400 = 0 THEN 29 ELSE 28

\* strftime("%Y-%m-%d")
strftime_ymd(y, m, d) ==
    (IF y < 10 THEN "000" ELSE IF y < 100 THEN "00" ELSE IF y < 1000 THEN "0" ELSE "")
        \o int_to_str(y) \o "-"
        \o (IF m < 10 THEN "0" ELSE "") \o int_to_str(m) \o "-"
        \o (IF d < 10 THEN "0" ELSE "") \o int_to_str(d)

\* s is made of digits and has between lo and hi of them
is_number(s, lo, hi) == Len(s) >= lo /\ Len(s) <= hi /\ all_digits(s, 0, Len(s))

valid_date(y, m, d) == y >= 1 /\ m \in 1..12 /\ d >= 1 /\ d <= days_in_month(y, m)

\* the date of a year, a month and a day as strftime writes it, or NaT
date_text(y, m, d) == IF valid_date(y, m, d) THEN strftime_ymd(y, m, d) ELSE "NaT"

\* pd.to_datetime(s, format="%m/%d/%Y %H:%M", errors="coerce"): the date, or NaT
parse_excel_display(s) ==
    Let(split(s, " "), LAMBDA halves :
        IF Len(halves) # 2 THEN "NaT"
        ELSE Let2(split(halves[1], "/"), split(halves[2], ":"), LAMBDA mdy, hm :
                IF /\ Len(mdy) = 3 /\ is_number(mdy[1], 1, 2) /\ is_number(mdy[2], 1, 2)
                   /\ is_number(mdy[3], 4, 4)
                   /\ Len(hm) = 2 /\ is_number(hm[1], 1, 2) /\ is_number(hm[2], 1, 2)
                THEN IF to_int(hm[1]) <= 23 /\ to_int(hm[2]) <= 59
                     THEN date_text(to_int(mdy[3]), to_int(mdy[1]), to_int(mdy[2]))
                     ELSE "NaT"
                ELSE "NaT"))

\* pd.to_datetime(s, errors="coerce") on an ISO date YYYY-MM-DD. Of the other
\* texts the model holds only ones that no parser reads as a date.
parse_iso_date(s) ==
    Let(split(s, "-"), LAMBDA ymd :
        IF /\ Len(ymd) = 3
           /\ is_number(ymd[1], 4, 4) /\ is_number(ymd[2], 2, 2) /\ is_number(ymd[3], 2, 2)
        THEN date_text(to_int(ymd[1]), to_int(ymd[2]), to_int(ymd[3]))
        ELSE "NaT")

\* Every cell is a str or NaN (read_csv with dtype=str): the branches for
\* numbers and timestamps are never taken.
normalize_posted_date(x) ==
    IF isna(x) THEN "__NA__"
    ELSE Let(strip(x), LAMBDA s :
            IF s = "" \/ s = "__NA__" THEN "__NA__"
            ELSE IF is_number(s, 4, 4) THEN s \o "-01-01"
            ELSE Let(parse_excel_display(s), LAMBDA dt :
                    IF dt # "NaT" THEN dt
                    ELSE Let(parse_iso_date(s), LAMBDA parsed :
                            IF parsed # "NaT" THEN parsed ELSE "__NA__")))

normalize_remote_option(x) ==
    IF isna(x) THEN "__NA__"
    ELSE LET v == strip(x)
         IN  IF v \in {"", "__NA__"} THEN "__NA__"
             ELSE IF v \in {"0", "0.0"} THEN "Onsite"
             ELSE IF v \in {"50", "50.0"} THEN "Hybrid"
             ELSE IF v \in {"100", "100.0"} THEN "Remote"
             ELSE IF upper(v) = "TRUE" THEN "Remote"
             ELSE IF upper(v) = "FALSE" THEN "Onsite"
             ELSE "__INVALID__"

normalize_employment_type(x) ==
    IF isna(x) THEN "__NA__"
    ELSE Let(strip(x), LAMBDA s :
            IF s = "" \/ upper(s) = "__NA__" THEN "__NA__"
            ELSE Let2(EMPLOYMENT_TYPE_LOOKUP, normalize_text(s), LAMBDA lookup, key :
                    IF key \in DOMAIN lookup THEN lookup[key] ELSE "__INVALID__"))

\* astype(str).str.strip().str.upper().apply(lambda x: EXP_LEVEL_MAP.get(x, x));
\* str(NaN) is "nan"
normalize_required_exp_years(x) ==
    LET s == upper(strip(x))
    IN  IF s \in DOMAIN EXP_LEVEL_MAP THEN EXP_LEVEL_MAP[s] ELSE s

\* the characters of the class [|,/;\n\-]
SKILL_SEPARATORS == {"|", ",", "/", ";", "\n", "-"}

RECURSIVE skill_tokens_from(_, _)
skill_tokens_from(s, start) ==
    LET begins == {i \in start..(Len(s) - 1) : at(s, i) \notin SKILL_SEPARATORS}
    IN  IF begins = {} THEN <<>>
        ELSE LET b == Min(begins)
                 e == Min({j \in (b + 1)..Len(s) : j = Len(s) \/ at(s, j) \in SKILL_SEPARATORS})
             IN  (IF strip(slice(s, b, e)) # "" THEN <<strip(slice(s, b, e))>> ELSE <<>>)
                    \o skill_tokens_from(s, e)

\* re.split(r"[|,/;\n\-]+", s), each piece stripped, the empty ones left out
skill_tokens(s) == skill_tokens_from(s, 0)

\* re.search(rf"\b{re.escape(key)}\b", text)
search_word(key, text) ==
    \E p \in 0..(Len(text) - Len(key)) :
        starts_at(text, p, key) /\ word_boundary(text, p) /\ word_boundary(text, p + Len(key))

\* the canonical skill of a normalized token: alias first, then the first
\* strong term found in it; None when there is none
resolve_skill(token_norm) ==
    Let(SKILL_ALIAS_LOOKUP, LAMBDA alias :
        IF token_norm \in DOMAIN alias THEN alias[token_norm]
        ELSE Let(SKILL_STRONG_LOOKUP, LAMBDA strong :
                Let({n \in 1..Len(strong) : search_word(strong[n][1], token_norm)},
                    LAMBDA hits : IF hits = {} THEN None ELSE strong[Min(hits)][2])))

RECURSIVE unique(_, _)
\* the items in the order of their first occurrence
unique(list, out) ==
    IF list = <<>> THEN out
    ELSE IF \E n \in 1..Len(out) : out[n] = Head(list) THEN unique(Tail(list), out)
    ELSE unique(Tail(list), Append(out, Head(list)))

\* the loop over the tokens: each token that is longer than two characters
\* once normalized, with its normalized text and the canonical skill found
\* for it (None when there is none)
scan_tokens(tokens) ==
    SelectSeq([n \in 1..Len(tokens) |->
                  Let(normalize_text(tokens[n]), LAMBDA token_norm :
                      [token |-> tokens[n], token_norm |-> token_norm,
                       canonical |-> IF Len(token_norm) <= 2 THEN None
                                     ELSE resolve_skill(token_norm)])],
              LAMBDA t : Len(t.token_norm) > 2)

\* normalize_skill_name_with_mapping: the value it returns (out) and the
\* (token_norm, token) it records as unmatched, in their order
skill_name_scan(x) ==
    IF isna(x) THEN [out |-> "__NA__", unmatched |-> <<>>]
    ELSE Let(strip(x), LAMBDA s :
            IF s = "" \/ s = "__NA__" THEN [out |-> "__NA__", unmatched |-> <<>>]
            ELSE Let(scan_tokens(skill_tokens(s)), LAMBDA tokens :
                    Let2(SelectSeq(tokens, LAMBDA t : truthy(t.canonical)),
                         SelectSeq(tokens, LAMBDA t : ~truthy(t.canonical)),
                         LAMBDA matched, missed :
                            [out |-> joined_skills(
                                         unique([n \in 1..Len(matched) |-> matched[n].canonical],
                                                <<>>)),
                             unmatched |-> [n \in 1..Len(missed) |->
                                              <<missed[n].token_norm, missed[n].token>>]])))

normalize_skill_name_with_mapping(x) == skill_name_scan(x).out

RECURSIVE count_unmatched(_, _)
\* UNMATCHED_SKILL_COUNTER[token_norm] += 1 and the first raw example of
\* UNMATCHED_SKILL_SOURCE, kept together in the order of insertion
count_unmatched(counter, unmatched) ==
    IF unmatched = <<>> THEN counter
    ELSE LET k == Head(unmatched)[1]
         IN  count_unmatched(
                 IF \E n \in 1..Len(counter) : counter[n].skill_norm = k
                 THEN [n \in 1..Len(counter) |->
                          IF counter[n].skill_norm = k
                          THEN [counter[n] EXCEPT !.count = @ + 1] ELSE counter[n]]
                 ELSE Append(counter, [skill_norm |-> k,
                                       skill_raw_example |-> Head(unmatched)[2],
                                       count |-> 1]),
                 Tail(unmatched))

RECURSIVE most_common(_)
\* Counter.most_common(): by count, the largest first, ties in the order of insertion
most_common(counter) ==
    IF counter = <<>> THEN <<>>
    ELSE LET top == Min({n \in 1..Len(counter) :
                            \A m \in 1..Len(counter) : counter[m].count <= counter[n].count})
         IN  <<counter[top]>>
                \o most_common([n \in 1..(Len(counter) - 1) |->
                                   IF n < top THEN counter[n] ELSE counter[n + 1]])

\* the rows of unmatched_skill_name.csv
unmatched_skill_rows(counter) ==
    Let(most_common(counter), LAMBDA ranked :
        [n \in 1..Len(ranked) |->
            [skill_norm |-> ranked[n].skill_norm,
             skill_raw_example |-> ranked[n].skill_raw_example,
             count |-> int_to_str(ranked[n].count)]])

\* variant: the canonical city of the alias is taken without the second level
normalize_city_alias_only(raw) ==
    Let(normalize_text(raw), LAMBDA norm :
        IF norm = "__NA__" THEN "__NA__"
        ELSE Let(CITY_ALIAS_LOOKUP_s23, LAMBDA alias :
                IF norm \in DOMAIN alias THEN alias[norm] ELSE "__UNMATCHED__"))

\* the two-level resolution of a city: alias, then official name
normalize_city(raw) ==
    Let(normalize_text(raw), LAMBDA norm :
        IF norm = "__NA__" THEN "__NA__"
        ELSE Let(CITY_ALIAS_LOOKUP_s23, LAMBDA alias :
                IF norm \in DOMAIN alias
                THEN Let2(CITY_NAME_LOOKUP, normalize_text(alias[norm]), LAMBDA names, canonical :
                        IF canonical \in DOMAIN names THEN names[canonical]
                        ELSE "__UNMATCHED__")
                ELSE "__UNMATCHED__"))

\* ------------------------------------------------------------------------
\* Step 2.3: normalize_city_file and run
\* ------------------------------------------------------------------------
\* df.columns
columns(df) == DOMAIN df[1]

\* df[col] = df[col].apply(f), when the column exists
apply(df, col, f(_)) ==
    IF col \in columns(df)
    THEN [i \in 1..Len(df) |-> [df[i] EXCEPT ![col] = f(df[i][col])]]
    ELSE df

\* (before != after).sum() over one column; NaN differs from everything
count_changed(before, after, col) ==
    IF col \in columns(before)
    THEN Cardinality({i \in 1..Len(before) :
                         isna(before[i][col]) \/ before[i][col] # after[i][col]})
    ELSE 0

\* the entries of a list that satisfy a test, in their order
RECURSIVE rows_where(_, _, _)
rows_where(df, test(_), i) ==
    IF i > Len(df) THEN <<>>
    ELSE (IF test(i) THEN <<i>> ELSE <<>>) \o rows_where(df, test, i + 1)

\* DataFrame.drop_duplicates(): the first of equal rows is kept
drop_duplicates(rows) == unique(rows, <<>>)

\* the unmatched-city report after the rows of one file are added to it
export_unmatched_city(report, unmatched_df) ==
    IF unmatched_df = <<>> THEN report
    ELSE IF report # <<>>
    THEN to_csv(drop_duplicates(read_csv(report) \o unmatched_df))
    ELSE to_csv(unmatched_df)

\* unmatched_skill_count: the pieces of the saved skill_name column whose
\* normalized text is a key of UNMATCHED_SKILL_COUNTER
count_unmatched_skill(df, counter) ==
    IF "skill_name" \in columns(df)
    THEN Let(Flatten([i \in 1..Len(df) |->
                         IF isna(df[i]["skill_name"]) THEN <<>>
                         ELSE split(df[i]["skill_name"], "|")]),
             LAMBDA pieces :
                Cardinality({n \in 1..Len(pieces) :
                                \E m \in 1..Len(counter) :
                                    counter[m].skill_norm = normalize_text(pieces[n])}))
    ELSE 0

\* the columns of the frame up to the test for the city column
normalize_before_city(df) ==
    Let(apply(apply(df, "skill_name", clean_skill_field_shape),
              "skill_category", clean_skill_field_shape),
        LAMBDA shaped :
            Let(apply(shaped, "skill_name", normalize_skill_name_with_mapping),
                LAMBDA skilled :
                    Let(apply(apply(skilled, "required_exp_years", normalize_required_exp_years),
                              "remote_option", normalize_remote_option),
                        LAMBDA remoted :
                            [shaped |-> shaped,
                             skilled |-> skilled,
                             remoted |-> remoted,
                             df |-> apply(remoted, "company_name", normalize_company_name)])))

\* the tokens the skill_name column of the frame leaves unmatched
unmatched_of_frame(shaped) ==
    IF "skill_name" \in columns(shaped)
    THEN Flatten([i \in 1..Len(shaped) |-> skill_name_scan(shaped[i]["skill_name"]).unmatched])
    ELSE <<>>

\* the columns of the frame after the test for the city column
normalize_from_city(df) ==
    Let([i \in 1..Len(df) |->
            [df[i] EXCEPT !["city"] = normalize_city(fillna(df[i]["city"], "__NA__"))]],
        LAMBDA citied :
            Let(apply(citied, "company_name", normalize_company_name), LAMBDA companied :
                Let(apply(companied, "employment_type", normalize_employment_type),
                    LAMBDA employed :
                        Let(apply(employed, "currency", normalize_currency),
                            LAMBDA currencied :
                                [citied |-> citied,
                                 companied |-> companied,
                                 employed |-> employed,
                                 currencied |-> currencied,
                                 df |-> apply(currencied, "posted_date",
                                              normalize_posted_date)]))))

\* (df["city"] == value).sum()
count_city(df, value) == Cardinality({i \in 1..Len(df) : df[i]["city"] = value})

\* unmatched_df: the rows whose city is unmatched and is not the name of
\* their country, with the name of the file and the index of the row
unmatched_city_rows(name, loaded, df) ==
    LET city_raw(i) == fillna(loaded[i]["city"], "__NA__")
        unmatched_mask(i) ==
            /\ df[i]["city"] = "__UNMATCHED__"
            /\ "country" \in columns(df)
                  => normalize_text(city_raw(i)) # normalize_text(df[i]["country"])
    IN  Let(rows_where(df, unmatched_mask, 1), LAMBDA picked :
            [n \in 1..Len(picked) |->
                [__source_name |-> name,
                 __source_id |-> int_to_str(picked[n] - 1),
                 city_raw |-> city_raw(picked[n])]])

\* the counts of the summary that normalize_city_file prints
file_summary(loaded, head, tail, counted) ==
    LET df == tail.df
        unmatched == count_city(df, "__UNMATCHED__")
        na == count_city(df, "__NA__")
    IN  [total |-> Len(df),
         valid |-> Len(df) - unmatched - na,
         na |-> na,
         unmatched |-> unmatched,
         company_norm_count |-> count_changed(tail.citied, tail.companied, "company_name"),
         employment_norm_count |->
             count_changed(tail.companied, tail.employed, "employment_type"),
         currency_norm_count |-> count_changed(tail.employed, tail.currencied, "currency"),
         posted_date_norm_count |->
             IF "posted_date" \in columns(df)
             THEN Cardinality({i \in 1..Len(df) :
                      /\ isna(tail.currencied[i]["posted_date"])
                            \/ tail.currencied[i]["posted_date"] # df[i]["posted_date"]
                      /\ df[i]["posted_date"] # "__NA__"})
             ELSE 0,
         remote_norm_count |-> count_changed(loaded, head.remoted, "remote_option"),
         remote_invalid_count |->
             IF "remote_option" \in columns(df)
             THEN Cardinality({i \in 1..Len(df) :
                                  head.remoted[i]["remote_option"] = "__INVALID__"})
             ELSE 0,
         skill_norm_count |-> count_changed(head.shaped, head.skilled, "skill_name"),
         unmatched_skill_count |-> count_unmatched_skill(df, counted)]

\* normalize_city_file(file_path) on the file of that name: what it leaves
\* in the counter, the two reports and the output folder, what it prints
\* and what it returns. A report that does not exist is <<>>, and so are an
\* output that is not written, a summary that is not printed and the return
\* of None.
normalize_city_file(name, file, counter, city_report, skill_report) ==
    Let(read_csv(file), LAMBDA loaded :
        Let(normalize_before_city(loaded), LAMBDA head :
            Let(count_unmatched(counter, unmatched_of_frame(head.shaped)), LAMBDA counted :
                IF "city" \notin columns(loaded)
                THEN [counter |-> counted, city_report |-> city_report,
                      skill_report |-> skill_report, output |-> <<>>, summary |-> <<>>,
                      returned |-> <<>>]
                ELSE Let(normalize_from_city(head.df), LAMBDA tail :
                        [counter |-> counted,
                         city_report |->
                             export_unmatched_city(city_report,
                                                   unmatched_city_rows(name, loaded, tail.df)),
                         skill_report |-> IF counted # <<>> THEN unmatched_skill_rows(counted)
                                          ELSE skill_report,
                         output |-> to_csv(tail.df),
                         summary |-> <<file_summary(loaded, head, tail, counted)>>,
                         returned |-> <<count_city(tail.df, "__UNMATCHED__")>>]))))

RECURSIVE remove_text(_, _, _)
\* s.replace(old, "") from position start on
remove_text(s, old, start) ==
    Let(find(s, old, start), LAMBDA found :
        IF found = -1 THEN slice(s, start, Len(s))
        ELSE slice(s, start, found) \o remove_text(s, old, found + Len(old)))

\* the name under which normalize_city_file saves the file of that name
output_name(name) ==
    LET stem == slice(name, 0, Len(name) - 4)
        bare == remove_text(remove_text(remove_text(stem, "extracted_desc_", 0),
                                        "mapped_", 0), "normalized_", 0)
    IN  "normalized_" \o bare \o ".csv"

\* the files run() takes from INPUT_DIR
input_files(dir) == SelectSeq(dir, LAMBDA f : ~starts_at(f.name, 0, "normalized_"))

\* ------------------------------------------------------------------------
\* Step 2.3: input files
\* ------------------------------------------------------------------------
\* a row of an extracted file in which every value is already canonical
CanonicalRow ==
    [company_name |-> "Acme", city |-> "Hanoi", country |-> "Vietnam",
     skill_name |-> "SQL", skill_category |-> "Database", required_exp_years |-> "3",
     remote_option |-> "__NA__", employment_type |-> "Full-time", currency |-> "USD",
     posted_date |-> "2024-03-01"]

\* texts of one cell, as the sources and the earlier stages leave them
CellTexts ==
    [city |-> {"hanoi", "Sai-Gon", "Gotham", "Vietnam", "", "__NA__", "__UNMATCHED__",
               "__INVALID__"},
     skill_name |-> {"sql|fakeskillxyz", "['sql', 'azure', 'git']",
                     "{'cloud': ['azure'], 'db': ['mysql']}", "py3, MySQL / r",
                     "big apache spark cluster; excel", "R", "go|sql|go", "",
                     "__NA__", "__INVALID__", "__UNMATCHED__"},
     required_exp_years |-> {"se", " MI ", "Na", "", "__NA__", "__INVALID__"},
     remote_option |-> {"true", "FALSE", "0", "50", "100.0", "Hybrid", "maybe", "",
                        "__INVALID__", "__UNMATCHED__"},
     company_name |-> {"  Acme   Corp ", "", "__NA__"},
     employment_type |-> {"full time", "Contract", "", "__NA__", "__INVALID__",
                          "__UNMATCHED__"},
     currency |-> {"us_dollar", " Euro ", "$", "AUD", "", "__INVALID__", "__UNMATCHED__"},
     posted_date |-> {"2024", "1/5/2024 9:30", "2023-02-29", "soon", "", "__NA__",
                      "__INVALID__"}]

\* the canonical row, and the rows that differ from it in one cell
ExtractedRows ==
    {CanonicalRow}
        \cup UNION {{[CanonicalRow EXCEPT ![c] = t] : t \in CellTexts[c]} :
                       c \in DOMAIN CellTexts}

\* a file without the city column
NoCityFile ==
    [name |-> "extracted_desc_nocity.csv",
     rows |-> <<[company_name |-> "Acme", skill_name |-> "tableau|sql",
                 remote_option |-> "100"]>>]

\* files that can lie in INPUT_DIR next to another one
CompanionFiles ==
    {[name |-> "mapped_jobs.csv",
      rows |-> <<[CanonicalRow EXCEPT !["skill_name"] = "nosuchskill|sql|tableau",
                                      !["city"] = "Gotham"]>>],
     [name |-> "normalized_old.csv", rows |-> <<CanonicalRow>>],
     [name |-> "extracted_desc_two.csv",
      rows |-> <<[CanonicalRow EXCEPT !["city"] = "Gotham", !["skill_name"] = "tableau"],
                 [CanonicalRow EXCEPT !["city"] = "Gotham", !["remote_option"] = "true"],
                 [CanonicalRow EXCEPT !["city"] = "Vietnam"],
                 [CanonicalRow EXCEPT !["city"] = "Sai-Gon"]>>],
     NoCityFile}

ExtractedFiles ==
    {[name |-> "extracted_desc_jobs.csv", rows |-> <<r>>] : r \in ExtractedRows}
        \cup CompanionFiles

\* number of files in INPUT_DIR
MaxInputFiles == 2

\* the contents of INPUT_DIR, in the order iterdir() lists them: one file, or
\* several of the files that can lie together
InputDirs ==
    {<<f>> : f \in ExtractedFiles}
        \cup UNION {{d \in [1..n -> CompanionFiles] :
                        \A j, k \in 1..n : j # k => d[j].name # d[k].name} :
                       n \in 2..MaxInputFiles}

\* ------------------------------------------------------------------------
\* Step 2.10: enums, sentinels, reference table
\* ------------------------------------------------------------------------
COMPANY_SIZES == {"Startup", "Small", "Medium", "Large", "Enterprise"}

INDUSTRIES ==
    {"Technology", "Finance", "Banking", "Insurance", "Healthcare", "Education",
     "E-commerce", "Manufacturing", "Consulting", "Government",
     "Telecommunications", "Energy", "Retail", "Logistics", "Real Estate"}

ROLE_ENUM ==
    {"Data Analyst", "Business Intelligence Analyst", "BI Developer",
     "Analytics Engineer", "Data Engineer", "Data Scientist",
     "Machine Learning Engineer", "AI Engineer", "AI Researcher",
     "Applied Scientist", "Research Engineer", "Data Architect",
     "Data Manager", "Data Lead"}

EDUCATION_LEVELS == {"High School", "Bachelor", "Master", "PhD"}

EMPLOYMENT_TYPES == {"Full-time", "Part-time", "Internship", "Temporary"}

JOB_LEVELS == {"Intern", "Junior", "Mid", "Senior", "Lead"}

REMOTE_OPTIONS == {"Onsite", "Hybrid", "Remote"}

\* The set also holds None, which no str(v) ever equals.
NA_SET == {"__NA__", "__INVALID__", "__UNMATCHED__", ""}

to_null(v) == IF isna(v) \/ strip(v) \in NA_SET THEN None ELSE v

\* pd.read_csv(SKILL_MAPPING_PATH, dtype=str) of step 2.10
skill_ref == skill_mapping_csv

RECURSIVE skill_to_category_from(_, _)
skill_to_category_from(rows, d) ==
    IF rows = <<>> THEN d
    ELSE LET row == Head(rows)
         IN  IF /\ notna(row.canonical_skill)
                /\ notna(row.skill_category)
                /\ strip(row.skill_category) # "__NA__"
             THEN skill_to_category_from(Tail(rows),
                      dict_set(d, strip(row.canonical_skill), strip(row.skill_category)))
             ELSE skill_to_category_from(Tail(rows), d)

\* canonical_skill -> single skill_category
SKILL_TO_CATEGORY == skill_to_category_from(skill_ref, EmptyDict)

\* ------------------------------------------------------------------------
\* Step 2.10: rows of the combined file
\* ------------------------------------------------------------------------
SOURCE_COLUMNS == {"__source_id", "__source_name"}

ERD_COLUMNS ==
    {"company_name", "company_size", "industry",
     "city", "country", "country_iso", "latitude", "longitude", "population",
     "posted_date", "min_salary", "max_salary", "currency",
     "required_exp_years", "education_level", "employment_type",
     "job_description", "remote_option",
     "skill_name", "skill_category", "role_name", "level"}

COMBINED_COLUMNS == SOURCE_COLUMNS \cup ERD_COLUMNS

BaseRow ==
    [c \in COMBINED_COLUMNS |->
        CASE c = "__source_id"        -> "7"
          [] c = "__source_name"      -> "adzuna"
          [] c = "company_name"       -> "Acme"
          [] c = "company_size"       -> "Small"
          [] c = "industry"           -> "Finance"
          [] c = "city"               -> "Hanoi"
          [] c = "country"            -> "Vietnam"
          [] c = "country_iso"        -> "VN"
          [] c = "latitude"           -> "21.02"
          [] c = "longitude"          -> "105.84"
          [] c = "population"         -> "8053663"
          [] c = "posted_date"        -> "2024-01-05"
          [] c = "min_salary"         -> "1000.0"
          [] c = "max_salary"         -> "2000.0"
          [] c = "currency"           -> "USD"
          [] c = "required_exp_years" -> "5"
          [] c = "education_level"    -> "Master"
          [] c = "employment_type"    -> "Full-time"
          [] c = "job_description"    -> "build etl"
          [] c = "remote_option"      -> "Remote"
          [] c = "skill_name"         -> "SQL|Python"
          [] c = "skill_category"     -> "Database | Programming"
          [] c = "role_name"          -> "Data Engineer"
          [] c = "level"              -> "Senior"]

AllNaRow ==
    [c \in COMBINED_COLUMNS |->
        IF c \in SOURCE_COLUMNS THEN BaseRow[c]
        ELSE IF c \in {"latitude", "longitude", "population", "job_description"} THEN NaN
        ELSE "__NA__"]

CompanyRows ==
    { With(BaseRow, [company_name |-> NaN]),
      With(BaseRow, [company_name |-> " __INVALID__"]),
      With(BaseRow, [company_size |-> "Large", industry |-> "Banking"]),
      With(BaseRow, [company_name |-> "Beta", company_size |-> "Huge",
                     industry |-> "__INVALID__"]) }

LocationRows ==
    { With(BaseRow, [city |-> "__UNMATCHED__", latitude |-> NaN, longitude |-> NaN,
                     population |-> NaN]),
      With(BaseRow, [latitude |-> "21.03", population |-> NaN]) }

PostingRows ==
    { With(BaseRow, [education_level |-> "Doctorate", employment_type |-> "__INVALID__",
                     remote_option |-> "true", min_salary |-> NaN, max_salary |-> NaN,
                     currency |-> " __NA__ ", job_description |-> NaN]) }

SkillRows ==
    { With(BaseRow, [skill_name |-> NaN, role_name |-> NaN, level |-> "__NA__"]),
      With(BaseRow, [skill_name |-> "__NA__", role_name |-> "__NA__", level |-> NaN]),
      With(BaseRow, [skill_name |-> "sql|fakeskillxyz|Spark|Python"]),
      With(BaseRow, [skill_name |-> "SQL|SQL"]),
      With(BaseRow, [skill_name |-> " Python | __NA__ || Excel"]) }

RoleRows ==
    { With(BaseRow, [role_name |-> "Data Scientist | Data Engineer", level |-> "Lead"]),
      With(BaseRow, [role_name |-> "Chef|Data Analyst", level |-> "Principal"]) }

\* the rows the combined file may hold
InputRows ==
    {BaseRow, AllNaRow, With(AllNaRow, [company_name |-> "Acme"])}
        \cup CompanyRows \cup LocationRows \cup PostingRows \cup SkillRows \cup RoleRows

\* ------------------------------------------------------------------------
\* Step 2.5: enrich_file (skill category, skill level)
\* ------------------------------------------------------------------------
\* rows of data_reference/skill_level_mapping.csv; an empty cell is NaN
level_df_s25 ==
    << [level |-> "Basic", role_keywords |-> "Junior|intern",
        description_keywords |-> "basic | familiar with", negative_keywords |-> NaN],
       [level |-> "Advanced", role_keywords |-> "senior|lead",
        description_keywords |-> "advanced", negative_keywords |-> "not advanced"],
       [level |-> "Expert", role_keywords |-> "principal",
        description_keywords |-> "expert", negative_keywords |-> "no expert|"] >>

LEVEL_ENUM == <<"Basic", "Intermediate", "Advanced", "Expert">>

CONTEXT_WINDOW == 6

\* SKILL_CATEGORY_LOOKUP: canonical_skill -> skill_category of the rows that
\* have both; of two rows with one canonical_skill the later one stays
SKILL_CATEGORY_LOOKUP ==
    Let(SelectSeq(skill_mapping_csv,
                  LAMBDA r : notna(r.canonical_skill) /\ notna(r.skill_category)),
        LAMBDA rows :
            [sk \in {rows[n].canonical_skill : n \in 1..Len(rows)} |->
                rows[Max({n \in 1..Len(rows) : rows[n].canonical_skill = sk})].skill_category])

\* [k.strip().lower() for k in str(x).split("|") if k.strip()]; str(NaN) is "nan"
level_keywords(x) ==
    Let(split(x, "|"), LAMBDA parts :
        SelectSeq([n \in 1..Len(parts) |-> lower(strip(parts[n]))], LAMBDA k : k # ""))

\* LEVEL_MAPPING of step 2.5, in the order of the rows (no level is there twice)
LEVEL_MAPPING_s25 ==
    [n \in 1..Len(level_df_s25) |->
        [level |-> level_df_s25[n].level,
         role |-> level_keywords(level_df_s25[n].role_keywords),
         desc |-> level_keywords(level_df_s25[n].description_keywords),
         negative |-> level_keywords(level_df_s25[n].negative_keywords)]]

\* normalize_text of step 2.5
normalize_text_s25(x) ==
    IF isna(x) THEN "" ELSE strip(collapse_blanks(lower(x)))

\* match_level: the levels whose rules match, in the order of LEVEL_MAPPING
match_level(text, source) ==
    Let(SelectSeq(LEVEL_MAPPING_s25,
                  LAMBDA rules : /\ ~contains_any(text, rules.negative)
                                 /\ contains_any(text, rules[source])),
        LAMBDA matched : [n \in 1..Len(matched) |-> matched[n].level])

\* extract_context: the words around the first place of the skill in the text
extract_context(text, skill, window) ==
    Let2(ws_split(text), ws_split(skill), LAMBDA tokens, skill_words :
        Let({i \in 0..(Len(tokens) - 1) :
                SubSeq(tokens, i + 1, Min({Len(tokens), i + Len(skill_words)}))
                    = skill_words},
            LAMBDA hits :
                IF hits = {} THEN ""
                ELSE join(" ", SubSeq(tokens, Max({0, Min(hits) - window}) + 1,
                                      Min({Len(tokens),
                                           Min(hits) + Len(skill_words) + window})))))

\* re.split(r"\s*\|\s*", s): the pieces between the bars, without the blanks
\* next to a bar
split_bars(s) ==
    Let(split(s, "|"), LAMBDA parts :
        [n \in 1..Len(parts) |->
            IF Len(parts) = 1 THEN parts[n]
            ELSE IF n = 1 THEN rstrip(parts[n])
            ELSE IF n = Len(parts) THEN lstrip(parts[n])
            ELSE strip(parts[n])])

\* {s.strip() for s in re.split(SKILL_SPLIT_PATTERN, x) if s.strip()}
stripped_set(x) ==
    Let(split_bars(x), LAMBDA parts :
        {strip(parts[n]) : n \in 1..Len(parts)} \ {""})

\* variant: a skill_category that holds a value is kept
category_of_row_keep_prior(skill_str, before_cat_str) ==
    IF before_cat_str # NA_VALUE /\ isna(before_cat_str)
    THEN [error |-> "TypeError"]
    ELSE Let2(Let2(IF skill_str # NA_VALUE THEN stripped_set(skill_str) ELSE {},
                   SKILL_CATEGORY_LOOKUP,
                   LAMBDA skills, lookup : {lookup[sk] : sk \in skills \cap DOMAIN lookup}),
              IF before_cat_str # NA_VALUE THEN stripped_set(before_cat_str) ELSE {},
              LAMBDA expected_cats, before_cats :
                [error |-> "",
                 out |-> IF before_cats # {} THEN before_cat_str
                         ELSE IF expected_cats # {} THEN join(" | ", sorted(expected_cats))
                         ELSE NA_VALUE,
                 right |-> 0, wrong |-> 0, enriched |-> 0, unmatched |-> 0])

\* variant: a prior category counts as right only when it is the whole set
category_of_row_right_if_equal(skill_str, before_cat_str) ==
    IF before_cat_str # NA_VALUE /\ isna(before_cat_str)
    THEN [error |-> "TypeError"]
    ELSE Let2(Let2(IF skill_str # NA_VALUE THEN stripped_set(skill_str) ELSE {},
                   SKILL_CATEGORY_LOOKUP,
                   LAMBDA skills, lookup : {lookup[sk] : sk \in skills \cap DOMAIN lookup}),
              IF before_cat_str # NA_VALUE THEN stripped_set(before_cat_str) ELSE {},
              LAMBDA expected_cats, before_cats :
                [error |-> "",
                 out |-> IF expected_cats # {} THEN join(" | ", sorted(expected_cats))
                         ELSE NA_VALUE,
                 right |-> IF before_cats # {} /\ before_cats = expected_cats
                           THEN 1 ELSE 0,
                 wrong |-> IF before_cats # {} /\ ~(before_cats \subseteq expected_cats)
                           THEN 1 ELSE 0,
                 enriched |-> IF expected_cats # {} /\ before_cats # expected_cats
                              THEN 1 ELSE 0,
                 unmatched |-> IF expected_cats = {} /\ before_cats # {} THEN 1 ELSE 0])

\* one turn of the skill-category loop: the category of the row and what it
\* adds to the four counters; re.split raises TypeError on a missing
\* skill_category, which is not filled as skill_name is
category_of_row(skill_str, before_cat_str) ==
    IF before_cat_str # NA_VALUE /\ isna(before_cat_str)
    THEN [error |-> "TypeError"]
    ELSE Let2(Let2(IF skill_str # NA_VALUE THEN stripped_set(skill_str) ELSE {},
                   SKILL_CATEGORY_LOOKUP,
                   LAMBDA skills, lookup : {lookup[sk] : sk \in skills \cap DOMAIN lookup}),
              IF before_cat_str # NA_VALUE THEN stripped_set(before_cat_str) ELSE {},
              LAMBDA expected_cats, before_cats :
                [error |-> "",
                 out |-> IF expected_cats # {} THEN join(" | ", sorted(expected_cats))
                         ELSE NA_VALUE,
                 right |-> IF before_cats # {} /\ before_cats \subseteq expected_cats
                           THEN 1 ELSE 0,
                 wrong |-> IF before_cats # {} /\ ~(before_cats \subseteq expected_cats)
                           THEN 1 ELSE 0,
                 enriched |-> IF expected_cats # {} /\ before_cats # expected_cats
                              THEN 1 ELSE 0,
                 unmatched |-> IF expected_cats = {} /\ before_cats # {} THEN 1 ELSE 0])

\* " | ".join(f"{s} ({level})" for s in skills)
with_level(skills, level) ==
    join(" | ", [n \in 1..Len(skills) |-> skills[n] \o " (" \o level \o ")"])

\* the local-context rule: the skills that have a level in their own window
context_levels(skills, desc_raw) ==
    Let([n \in 1..Len(skills) |->
            Let(match_level(extract_context(desc_raw, normalize_text_s25(skills[n]),
                                            CONTEXT_WINDOW), "desc"),
                LAMBDA ctx_levels :
                    IF ctx_levels # <<>> THEN skills[n] \o " (" \o ctx_levels[1] \o ")"
                    ELSE "")],
        LAMBDA found : SelectSeq(found, LAMBDA e : e # ""))

\* variant: the description rules are asked before the role rules
level_of_row_desc_first(skill_raw, role_raw, desc_raw, level_before) ==
    IF skill_raw = NA_VALUE THEN level_before
    ELSE Let(Let(split_bars(skill_raw), LAMBDA parts :
                    [n \in 1..Len(parts) |-> strip(parts[n])]),
             LAMBDA skills :
                Let(match_level(desc_raw, "desc"), LAMBDA desc_levels :
                    IF Len(desc_levels) = 1 THEN with_level(skills, desc_levels[1])
                    ELSE Let(match_level(role_raw, "role"), LAMBDA role_levels :
                            IF Len(role_levels) = 1 THEN with_level(skills, role_levels[1])
                            ELSE Let(context_levels(skills, desc_raw),
                                     LAMBDA enriched_skills :
                                        IF enriched_skills = <<>> THEN NA_VALUE
                                        ELSE join(" | ", enriched_skills)))))

\* one turn of the skill-level loop: skill_level_required of the row
level_of_row(skill_raw, role_raw, desc_raw, level_before) ==
    IF skill_raw = NA_VALUE THEN level_before
    ELSE Let(Let(split_bars(skill_raw), LAMBDA parts :
                    [n \in 1..Len(parts) |-> strip(parts[n])]),
             LAMBDA skills :
                Let(match_level(role_raw, "role"), LAMBDA role_levels :
                    IF Len(role_levels) = 1 THEN with_level(skills, role_levels[1])
                    ELSE Let(match_level(desc_raw, "desc"), LAMBDA desc_levels :
                            IF Len(desc_levels) = 1 THEN with_level(skills, desc_levels[1])
                            ELSE Let(context_levels(skills, desc_raw),
                                     LAMBDA enriched_skills :
                                        IF enriched_skills = <<>> THEN NA_VALUE
                                        ELSE join(" | ", enriched_skills)))))

\* level_after.str.contains("|".join(LEVEL_ENUM), regex=True, na=False)
level_hit(level) == contains_any(level, LEVEL_ENUM)

\* x.isin(LEVEL_ENUM)
in_level_enum(x) == \E n \in 1..Len(LEVEL_ENUM) : LEVEL_ENUM[n] = x

\* what enrich_file works on: the file read, the columns skill_name,
\* skill_level_required and skill_category added with "__NA__" when the file
\* has none, and the missing cells of the first two filled
load_for_enrich(file) ==
    Let(read_csv(file), LAMBDA loaded :
        [i \in 1..Len(loaded) |->
            [c \in (DOMAIN loaded[i])
                       \cup {"skill_name", "skill_level_required", "skill_category"} |->
                IF c \notin DOMAIN loaded[i] THEN NA_VALUE
                ELSE IF c \in {"skill_name", "skill_level_required"}
                THEN fillna(loaded[i][c], NA_VALUE)
                ELSE loaded[i][c]]])

\* valid_skill_mask
valid_skill(row) == row["skill_name"] # NA_VALUE /\ row["skill_name"] # "__INVALID__"

\* the figures enrich_file prints for a file
enrich_audit(name, df_raw, cats, df) ==
    Let(1..Len(df_raw), LAMBDA rows :
        [file |-> name,
         total_rows |-> Len(df_raw),
         skill_empty |-> Cardinality({i \in rows : df_raw[i]["skill_name"] = NA_VALUE}),
         category_right |-> Cardinality({i \in rows : cats[i].right = 1}),
         category_wrong |-> Cardinality({i \in rows : cats[i].wrong = 1}),
         category_enriched |-> Cardinality({i \in rows : cats[i].enriched = 1}),
         category_unmatched |-> Cardinality({i \in rows : cats[i].unmatched = 1}),
         level_right |->
             Cardinality({i \in rows : in_level_enum(df_raw[i]["skill_level_required"])}),
         level_wrong |->
             Cardinality({i \in rows :
                             /\ valid_skill(df_raw[i])
                             /\ ~in_level_enum(df_raw[i]["skill_level_required"])
                             /\ df_raw[i]["skill_level_required"] # NA_VALUE}),
         level_enriched |->
             Cardinality({i \in rows :
                             /\ valid_skill(df_raw[i])
                             /\ df_raw[i]["skill_level_required"] = NA_VALUE
                             /\ level_hit(df[i]["skill_level_required"])}),
         level_unmatched |->
             Cardinality({i \in rows :
                             /\ valid_skill(df_raw[i])
                             /\ ~level_hit(df[i]["skill_level_required"])})])

\* unmatched_df: the rows with a skill and no level, with the name of the file
unmatched_level_rows(name, df) ==
    Let(SelectSeq(df, LAMBDA row : /\ valid_skill(row)
                                   /\ ~level_hit(row["skill_level_required"])),
        LAMBDA rows :
            [n \in 1..Len(rows) |->
                [__source_name |-> name,
                 skill_name |-> rows[n]["skill_name"],
                 role_name |-> rows[n]["role_name"],
                 job_description |-> rows[n]["job_description"],
                 skill_level_required |-> rows[n]["skill_level_required"]]])

\* enrich_file without its save: the frame to save, unmatched_df and the
\* figures printed, or the exception it ends with (TypeError of re.split on a
\* missing skill_category, KeyError of df.loc on a file without role_name or
\* job_description)
enrich_frame(name, df_raw) ==
    Let([i \in 1..Len(df_raw) |->
            category_of_row(df_raw[i]["skill_name"], df_raw[i]["skill_category"])],
        LAMBDA cats :
            IF \E i \in 1..Len(df_raw) : cats[i].error # ""
            THEN [error |-> "TypeError", output |-> <<>>, unmatched_df |-> <<>>,
                  printed |-> <<>>]
            ELSE IF ~({"role_name", "job_description"} \subseteq columns(df_raw))
            THEN [error |-> "KeyError", output |-> <<>>, unmatched_df |-> <<>>,
                  printed |-> <<>>]
            ELSE Let([i \in 1..Len(df_raw) |->
                         [df_raw[i] EXCEPT
                             !["skill_category"] = cats[i].out,
                             !["skill_level_required"] =
                                 level_of_row(df_raw[i]["skill_name"],
                                              normalize_text_s25(df_raw[i]["role_name"]),
                                              normalize_text_s25(df_raw[i]["job_description"]),
                                              @)]],
                     LAMBDA df :
                        [error |-> "", output |-> to_csv(df),
                         unmatched_df |-> unmatched_level_rows(name, df),
                         printed |-> <<enrich_audit(name, df_raw, cats, df)>>]))

\* enrich_file(file_path)
enrich_file(name, file) == enrich_frame(name, load_for_enrich(file))

\* a row of a file of INPUT_DIR of step 2.5
EnrichRow ==
    [company_name |-> "Acme", role_name |-> "Data Analyst", skill_name |-> "SQL|R",
     skill_category |-> "__NA__", skill_level_required |-> "__NA__",
     job_description |-> "__NA__"]

\* texts of the cells enrich_file reads
EnrichTexts ==
    [skill_name |-> {"SQL", "R | SQL |", "Spark", "Spark|SQL", "Tableau", "sql", "",
                     "__NA__", "__INVALID__"},
     skill_category |-> {"Database", "Programming", "Database | Programming", "Tools",
                         "Tools|Database", "", "__NA__"},
     role_name |-> {"Senior  Data Engineer", "Junior Lead", "", "Principal Intern"},
     job_description |-> {"Expert SQL and basic R", "advanced analytics",
                          "Familiar with SQL; R is a plus",
                          "sql for finance; advanced r",
                          "no expert needed, we use basic sql every single day of the week and advanced r",
                          ""},
     skill_level_required |-> {"Expert", "SQL (Basic)", "junk", ""}]

\* the rows that differ from EnrichRow in the skill cells, or in the cells
\* the level is read from
EnrichRows ==
    {With(EnrichRow, [skill_name |-> s, skill_category |-> c]) :
        <<s, c>> \in EnrichTexts.skill_name \X EnrichTexts.skill_category}
        \cup {With(EnrichRow, [role_name |-> r, job_description |-> d]) :
                  <<r, d>> \in EnrichTexts.role_name \X EnrichTexts.job_description}
        \cup {With(EnrichRow, [skill_level_required |-> l, skill_name |-> s]) :
                  <<l, s>> \in EnrichTexts.skill_level_required \X {"SQL|R", "__NA__"}}

\* a file without the columns role_name and job_description
NoRoleFile ==
    [name |-> "norole.csv",
     rows |-> <<[company_name |-> "Acme", skill_name |-> "SQL",
                 skill_category |-> "Tools"]>>]

\* files that can lie in INPUT_DIR of step 2.5 next to another one
EnrichCompanions ==
    {[name |-> "jobs_a.csv",
      rows |-> <<EnrichRow, With(EnrichRow, [skill_name |-> "Tableau",
                                            skill_category |-> "Tools"]), EnrichRow>>],
     [name |-> "jobs_b.csv",
      rows |-> <<With(EnrichRow, [role_name |-> "Senior Analyst"]), EnrichRow>>],
     NoRoleFile}

\* what INPUT_DIR of step 2.5 can hold, in the orders iterdir() can list it
EnrichDirs ==
    {<<[name |-> "jobs.csv", rows |-> <<r>>]>> : r \in EnrichRows}
        \cup {d \in [1..2 -> EnrichCompanions] : d[1].name # d[2].name}
        \cup {<<f>> : f \in EnrichCompanions}

\* ------------------------------------------------------------------------
\* Runner of step 2 (run_step2_full_pipeline.py)
\* ------------------------------------------------------------------------
\* STEPS: step index -> script
STEPS ==
    [k \in 1..10 |->
        <<"2.1_mapping_check.py", "2.2_extracting_description_signals.py",
          "2.3_normalizing_values.py", "2.4_enriching_country_from_city.py",
          "2.5_enriching_skill_level_category.py", "2.6_standardizing_role_name.py",
          "2.7_validating_salary_exp.py", "2.8_computing_year_cap.py",
          "2.9_combining_data.py", "2.10_splitting_tables_erd.py">>[k]]

\* the checks of ask_step_range() on the two numbers read: the text of the
\* ValueError raised, "" when the range is returned
ask_step_range_error(start, end) ==
    IF start \notin DOMAIN STEPS \/ end \notin DOMAIN STEPS THEN "Invalid step number"
    ELSE IF start > end THEN "Start step must be <= end step"
    ELSE ""

\* variant: subprocess.run without check=True
subprocess_run_unchecked(returncode) == ""

\* subprocess.run([...], check=True): CalledProcessError on a non-zero
\* exit status
subprocess_run(returncode) == IF returncode # 0 THEN "CalledProcessError" ELSE ""

\* the numbers typed at the two prompts run from 0 to MaxStepInput
MaxStepInput == 11

StepInputs == 0..MaxStepInput

\* exit statuses of a script: success, sys.exit(1), an uncaught signal
ExitStatuses == {0, 1, -9}

\* the sets of scripts that can be missing from BASE_DIR
MissingScripts == {{}} \cup {{k} : k \in DOMAIN STEPS} \cup {{4, 7}}

\* ------------------------------------------------------------------------
\* Step 2.1: mapping coverage check (2.1_mapping_check.py)
\* ------------------------------------------------------------------------
VALID_EXTS == {".csv", ".xlsx"}

\* the place of the last dot of a name that starts its suffix, -1 when the
\* name has no suffix
suffix_start(name) ==
    IF \E i \in 1..(Len(name) - 1) : at(name, i) = "."
    THEN Max({i \in 1..(Len(name) - 1) : at(name, i) = "."})
    ELSE -1

\* Path.suffix
path_suffix(name) ==
    IF suffix_start(name) = -1 THEN "" ELSE slice(name, suffix_start(name), Len(name))

\* Path.stem
path_stem(name) ==
    IF suffix_start(name) = -1 THEN name ELSE slice(name, 0, suffix_start(name))

\* the entries of the two directories that are directories themselves
DIRECTORY_ENTRIES == {"old.csv"}

\* Path.is_file()
is_file(name) == name \notin DIRECTORY_ENTRIES

\* sorted(f for f in d.iterdir() if f.is_file() and f.suffix.lower() in VALID_EXTS)
data_files(entries) ==
    sorted({f \in entries : is_file(f) /\ lower(path_suffix(f)) \in VALID_EXTS})

\* what count_rows returns for the files of the model: the number of rows,
\* -1 for a file that cannot be read
FILE_ROWS ==
    [f \in {"jobs_us.csv", "jobs_vn.CSV", "survey.xlsx", "mapped_jobs_us.csv",
            "mapped_jobs_vn.csv", "stale.csv"} |->
        IF f \in {"jobs_us.csv", "mapped_jobs_us.csv"} THEN 3
        ELSE IF f \in {"jobs_vn.CSV", "mapped_jobs_vn.csv"} THEN 2
        ELSE IF f = "stale.csv" THEN 0
        ELSE -1]

count_rows(f) == FILE_ROWS[f]

\* total += max(rows, 0) over the files
RECURSIVE total_rows_of(_)
total_rows_of(files) ==
    IF files = <<>> THEN 0
    ELSE Max({count_rows(Head(files)), 0}) + total_rows_of(Tail(files))

\* the final result: the status the script exits with
mapping_result(extracted_files, mapped_files) ==
    IF Len(mapped_files) < Len(extracted_files) THEN 1 ELSE 0

\* the name the column mapper saves the mapped version of a file under
mapped_name(selected_file) == "mapped_" \o path_stem(selected_file) \o ".csv"

\* entries EXTRACTED_DIR and MAPPED_DIR can hold
ExtractedEntries == {"jobs_us.csv", "jobs_vn.CSV", "survey.xlsx", "notes.txt", "old.csv"}

MappedEntries == {"mapped_jobs_us.csv", "mapped_jobs_vn.csv", "stale.csv", "readme.md"}

\* ------------------------------------------------------------------------
\* Step 3.2: loader of the tables into the store (3.2_loading_data_to_supabase.py)
\* A row of a file has the id of its id column, the ids of its foreign-key
\* columns, and one more column (the name of the entity, the description of
\* the posting, the level); the columns no test of the loader reads are
\* left out. An id cell that is empty in the file is NULL_ID.
\* ------------------------------------------------------------------------
\* rows per batch insert (the source takes 5000)
BATCH_SIZE == 2

NULL_ID == 0

LOAD_ORDER ==
    <<"companies.csv", "locations.csv", "role_names.csv", "skills.csv",
      "job_postings.csv", "job_roles.csv", "job_levels.csv", "job_skills.csv">>

\* TABLE_MAPPINGS: the table and the id column of a file ("" for None), and
\* the foreign-key column next to job_id of a junction file
TABLE_MAPPINGS ==
    [f \in {LOAD_ORDER[n] : n \in 1..Len(LOAD_ORDER)} |->
        CASE f = "companies.csv" ->
                [table |-> "companies", id_column |-> "company_id", ref_column |-> ""]
          [] f = "locations.csv" ->
                [table |-> "locations", id_column |-> "location_id", ref_column |-> ""]
          [] f = "role_names.csv" ->
                [table |-> "role_names", id_column |-> "role_id", ref_column |-> ""]
          [] f = "skills.csv" ->
                [table |-> "skills", id_column |-> "skill_id", ref_column |-> ""]
          [] f = "job_postings.csv" ->
                [table |-> "job_postings", id_column |-> "job_id", ref_column |-> ""]
          [] f = "job_roles.csv" ->
                [table |-> "job_roles", id_column |-> "", ref_column |-> "role_id"]
          [] f = "job_levels.csv" ->
                [table |-> "job_levels", id_column |-> "", ref_column |-> "level"]
          [] f = "job_skills.csv" ->
                [table |-> "job_skills", id_column |-> "", ref_column |-> "skill_id"]]

LOADER_TABLES == {TABLE_MAPPINGS[f].table : f \in DOMAIN TABLE_MAPPINGS}

\* ID_MAPPING at the start of the process
ID_MAPPING ==
    [c \in {"company_id", "location_id", "role_id", "skill_id", "job_id"} |-> EmptyDict]

\* TABLE_STATS at the start of the process
TABLE_STATS == [t \in LOADER_TABLES |-> [inserted |-> 0, skipped |-> 0]]

\* clean_value of a text cell
clean_value(value) ==
    IF isna(value) THEN None
    ELSE IF strip(value) \in {"__NA__", "__INVALID__", "__UNMATCHED__", "_NA_", "NA",
                              "nan", "NaN", ""}
    THEN None
    ELSE strip(value)

\* the tables of the store with a foreign key to a table
REFERENCING(table) ==
    CASE table \in {"companies", "locations"} -> {"job_postings"}
      [] table = "role_names" -> {"job_roles"}
      [] table = "skills" -> {"job_skills"}
      [] table = "job_postings" -> {"job_roles", "job_levels", "job_skills"}
      [] OTHER -> {}

\* TRUNCATE TABLE table RESTART IDENTITY CASCADE
truncate_cascade(db, table) ==
    Let({table} \cup REFERENCING(table)
            \cup UNION {REFERENCING(t) : t \in REFERENCING(table)},
        LAMBDA emptied : [t \in DOMAIN db |-> IF t \in emptied THEN <<>> ELSE db[t]])

\* load_existing_id_mapping: every id of the table is mapped to itself
load_existing_id_mapping(id_mapping, id_column, rows) ==
    [id_mapping EXCEPT ![id_column] =
        [i \in {rows[n].id : n \in 1..Len(rows)} |-> i] @@ @]

\* validate_fk_exists(fk_value, fk_column) with allow_null=False
validate_fk_exists(id_mapping, fk_value, fk_column) ==
    IF fk_value = NULL_ID THEN FALSE
    ELSE IF fk_column \in DOMAIN id_mapping THEN fk_value \in DOMAIN id_mapping[fk_column]
    ELSE TRUE

\* one turn of the loop of load_csv_to_db_optimized up to data_batch.append:
\* whether the row is skipped, its old id and the values to insert
prepared_row(table, row, id_mapping) ==
    [skip |->
        \/ row.id = NULL_ID
        \/ table \in {"companies", "role_names"} /\ clean_value(row.name) = None
        \/ /\ table = "job_postings"
           /\ \/ row.company_id = NULL_ID
              \/ row.location_id = NULL_ID
              \/ ~validate_fk_exists(id_mapping, row.company_id, "company_id")
              \/ ~validate_fk_exists(id_mapping, row.location_id, "location_id"),
     old_id |-> row.id,
     values |-> IF table = "job_postings"
                THEN [company_id |-> row.company_id, location_id |-> row.location_id,
                      name |-> clean_value(row.name)]
                ELSE [name |-> clean_value(row.name)]]

\* one turn of the loop of load_csv_with_fk_mapping_optimized up to
\* data_batch.append
prepared_junction_row(ref_column, row, id_mapping) ==
    IF ref_column = "level"
    THEN [skip |-> row.job_id = NULL_ID,
          values |-> [job_id |-> row.job_id,
                      ref |-> IF clean_value(row.ref) = None THEN "__NA__"
                              ELSE clean_value(row.ref)]]
    ELSE [skip |-> \/ row.job_id = NULL_ID
                   \/ row.ref = NULL_ID
                   \/ row.ref \notin DOMAIN id_mapping[ref_column],
          values |-> [job_id |-> row.job_id,
                      ref |-> IF row.ref \in DOMAIN id_mapping[ref_column]
                              THEN id_mapping[ref_column][row.ref] ELSE NULL_ID]]

\* the batch the j-th appended row is inserted with
batch_of(j) == ((j - 1) \div BATCH_SIZE) + 1

\* the number of batch inserts of n appended rows
batch_count(n) == (n + BATCH_SIZE - 1) \div BATCH_SIZE

\* the id the store gives the j-th appended row after RESTART IDENTITY: the
\* rows of a batch that failed took an id or not (burn)
returned_id(j, failing, burn) ==
    1 + Cardinality({i \in 1..(j - 1) : burn \/ batch_of(i) # failing})

\* the appended rows of the batches that did not fail, in their order
inserted_positions(n, failing) ==
    SelectSeq([j \in 1..n |-> j], LAMBDA j : batch_of(j) # failing)

\* load_csv_to_db_optimized on a file that exists: choice is the answer
\* typed, failing the batch insert that raises (0: none, -1: the TRUNCATE
\* raises)
load_csv_to_db_optimized(db, id_mapping, stats, file, rows, choice, failing, burn) ==
    Let2(TABLE_MAPPINGS[file].table, TABLE_MAPPINGS[file].id_column,
         LAMBDA table_name, id_column :
            IF choice # "y"
            THEN [db |-> db,
                  id_mapping |-> IF Len(db[table_name]) > 0
                                 THEN load_existing_id_mapping(id_mapping, id_column,
                                                               db[table_name])
                                 ELSE id_mapping,
                  stats |-> stats, ok |-> TRUE, batches |-> 0]
            ELSE IF failing = -1
            THEN [db |-> db, id_mapping |-> id_mapping, stats |-> stats, ok |-> FALSE,
                  batches |-> 0]
            ELSE IF rows = <<>>
            THEN [db |-> truncate_cascade(db, table_name), id_mapping |-> id_mapping,
                  stats |-> stats, ok |-> TRUE, batches |-> 0]
            ELSE Let2(SelectSeq([n \in 1..Len(rows) |->
                                    prepared_row(table_name, rows[n], id_mapping)],
                                LAMBDA p : ~p.skip),
                      truncate_cascade(db, table_name),
                      LAMBDA kept, emptied :
                        Let(inserted_positions(Len(kept), failing), LAMBDA done :
                            [db |-> [emptied EXCEPT ![table_name] =
                                        [n \in 1..Len(done) |->
                                            With(kept[done[n]].values,
                                                 [id |-> returned_id(done[n], failing,
                                                                     burn)])]],
                             id_mapping |->
                                [id_mapping EXCEPT ![id_column] =
                                    [old \in {kept[done[n]].old_id : n \in 1..Len(done)} |->
                                        returned_id(
                                            Max({done[n] : n \in
                                                    {m \in 1..Len(done) :
                                                        kept[done[m]].old_id = old}}),
                                            failing, burn)] @@ @],
                             stats |-> [stats EXCEPT ![table_name] =
                                          [inserted |-> Len(done),
                                           skipped |-> Len(rows) - Len(done)]],
                             ok |-> TRUE,
                             batches |-> batch_count(Len(kept))])))

\* load_csv_with_fk_mapping_optimized on a file that exists
load_csv_with_fk_mapping_optimized(db, id_mapping, stats, file, rows, choice, failing) ==
    Let2(TABLE_MAPPINGS[file].table, TABLE_MAPPINGS[file].ref_column,
         LAMBDA table_name, ref_column :
            IF choice # "y"
            THEN [db |-> db, stats |-> stats, ok |-> TRUE, batches |-> 0]
            ELSE IF failing = -1
            THEN [db |-> db, stats |-> stats, ok |-> FALSE, batches |-> 0]
            ELSE IF rows = <<>>
            THEN [db |-> truncate_cascade(db, table_name), stats |-> stats, ok |-> TRUE,
                  batches |-> 0]
            ELSE Let(SelectSeq([n \in 1..Len(rows) |->
                                   prepared_junction_row(ref_column, rows[n], id_mapping)],
                               LAMBDA p : ~p.skip),
                     LAMBDA kept :
                        Let(inserted_positions(Len(kept), failing), LAMBDA done :
                            [db |-> [truncate_cascade(db, table_name) EXCEPT ![table_name] =
                                        [n \in 1..Len(done) |-> kept[done[n]].values]],
                             stats |-> [stats EXCEPT ![table_name] =
                                          [inserted |-> Len(done),
                                           skipped |-> Len(rows) - Len(done)]],
                             ok |-> TRUE,
                             batches |-> batch_count(Len(kept))])))

\* the files of DATA_DIR as step 2.10 saves them
CleanFiles ==
    [f \in DOMAIN TABLE_MAPPINGS |->
        CASE f = "companies.csv" ->
                <<[id |-> 1, name |-> "Acme"], [id |-> 2, name |-> "Beta"],
                  [id |-> 3, name |-> "Gamma"]>>
          [] f = "locations.csv" -> <<[id |-> 1, name |-> "Hanoi"], [id |-> 2, name |-> "Hue"]>>
          [] f = "role_names.csv" ->
                <<[id |-> 1, name |-> "Data Analyst"], [id |-> 2, name |-> "Data Engineer"]>>
          [] f = "skills.csv" ->
                <<[id |-> 1, name |-> "SQL"], [id |-> 2, name |-> "Python"],
                  [id |-> 3, name |-> "R"]>>
          [] f = "job_postings.csv" ->
                <<[id |-> 1, company_id |-> 1, location_id |-> 1, name |-> "posting A"],
                  [id |-> 2, company_id |-> 2, location_id |-> 2, name |-> "posting B"],
                  [id |-> 3, company_id |-> 3, location_id |-> 1, name |-> "posting C"]>>
          [] f = "job_roles.csv" ->
                <<[job_id |-> 1, ref |-> 1], [job_id |-> 2, ref |-> 2],
                  [job_id |-> 3, ref |-> 1]>>
          [] f = "job_levels.csv" ->
                <<[job_id |-> 1, ref |-> "Junior"], [job_id |-> 2, ref |-> "__NA__"]>>
          [] f = "job_skills.csv" ->
                <<[job_id |-> 1, ref |-> 1], [job_id |-> 2, ref |-> 2],
                  [job_id |-> 3, ref |-> 3]>>]

\* files with a company and a role without name, a posting without
\* location, two postings of one company and an association without skill
SparseFiles ==
    [CleanFiles EXCEPT
        !["companies.csv"][1].name = "__NA__",
        !["role_names.csv"][1].name = NaN,
        !["job_postings.csv"][1].location_id = NULL_ID,
        !["job_postings.csv"][3].company_id = 2,
        !["job_skills.csv"][1].ref = NULL_ID]

LoaderFiles == {CleanFiles, SparseFiles}

EmptyStore == [t \in LOADER_TABLES |-> <<>>]

\* the store after an earlier load of two companies, one location and one
\* posting
PriorStore ==
    [EmptyStore EXCEPT
        !["companies"] = <<[id |-> 1, name |-> "Acme"], [id |-> 2, name |-> "Beta"]>>,
        !["locations"] = <<[id |-> 1, name |-> "Hanoi"]>>,
        !["job_postings"] = <<[id |-> 1, company_id |-> 1, location_id |-> 1,
                               name |-> "posting A"]>>,
        !["job_levels"] = <<[job_id |-> 1, ref |-> "Junior"]>>]

\* batch inserts and TRUNCATEs of one process that the store refuses
MaxStoreErrors == 1

\* ------------------------------------------------------------------------
\* State
\* ------------------------------------------------------------------------
VARIABLES
    pc,                      \* position of run(): "loop", "done"
    df,                      \* rows of the combined file iterated so far
    dropped_job_no_company, dropped_job_all_na,
    skill_map, company_map, location_map, role_map,
    skills, companies, locations, roles,
    job_postings, job_skills, job_roles, job_levels,
    skill_id, company_id, location_id, role_id, job_id,
    summary,                 \* the figures printed at the end of run()
    emitted,                 \* history: positions in df of the rows that got a job posting
    x_input,                 \* history: the mapped file given to the first extraction
    x_file,                  \* the file the next extract_from_description reads
    x_before,                \* df of the last extraction after fillna, before the loop
    x_after,                 \* df of the last extraction as saved
    x_filled,                \* the counters printed by the last extraction
    x_prev,                  \* the file the extraction before the last one saved
    x_runs,                  \* number of extractions so far
    n_input,                 \* history: the files INPUT_DIR held at first
    n_dir,                   \* the files of INPUT_DIR of step 2.3: name and rows
    n_out,                   \* the files of OUTPUT_DIR of step 2.3, by name
    n_pc,                    \* position of run() of step 2.3: "idle", "loop"
    n_todo,                  \* the files the loop of run() has still to take
    n_counter,               \* UNMATCHED_SKILL_COUNTER with UNMATCHED_SKILL_SOURCE
    n_city_report,           \* rows of unmatched_city_name.csv; <<>> when there is no file
    n_skill_report,          \* rows of unmatched_skill_name.csv; <<>> when there is no file
    n_printed,               \* the figures printed for the files of the run
    n_total_unmatched_city,  \* total_unmatched_city of run()
    n_runs,                  \* number of runs of step 2.3 that have ended
    n_fed,                   \* history: the number of runs after which the saved
                             \* files were last given to the step again (0: never)
    k_input,                 \* history: the files INPUT_DIR of step 2.5 held at first
    k_dir,                   \* the files of INPUT_DIR of step 2.5: name and rows
    k_out,                   \* the files of OUTPUT_DIR of step 2.5, by name
    k_pc,                    \* position of run_enrich(): "idle", "loop", "failed"
    k_error,                 \* the exception run_enrich() ended with, "" when none
    k_todo,                  \* the files the loop of run_enrich() has still to take
    k_all_unmatched,         \* all_unmatched, the frames concatenated
    k_report,                \* rows of unmatched_skill_level.csv; <<>> when there is no file
    k_printed,               \* the figures printed for the files of the run
    k_runs,                  \* number of runs of step 2.5 that have ended
    k_fed,                   \* history: the number of runs after which the saved
                             \* files were last given to the step again (0: never)
    r_pc,                    \* position of run() of the runner: "idle", "ask", "loop",
                             \* "running" (in subprocess.run), "done", "failed"
    r_missing,               \* the steps whose script is not in BASE_DIR
    r_start,                 \* start of run(), 0 before it is read
    r_end,                   \* end of run(), 0 before it is read
    r_step,                  \* step_num of the loop of run()
    r_launched,              \* history: the scripts started, with their exit status
    r_printed,               \* the lines run() and run_step() printed about steps
    r_error,                 \* the exception run() ended with, "" when none
    g_extracted,             \* the entries of EXTRACTED_DIR
    g_mapped,                \* the entries of MAPPED_DIR
    g_exit,                  \* exit status of the last mapping check, -1 before it
    g_printed,               \* the figures the last mapping check printed
    g_checked,               \* history: the two directories as the last check saw them
    l_pc,                    \* position of main() of the loader: "idle", "connect",
                             \* "load", "done"
    l_csv,                   \* the files of DATA_DIR: the rows of each
    l_missing,               \* the files that are not in DATA_DIR
    l_db,                    \* the tables of the store: the rows of each
    l_todo,                  \* the files main() has still to load
    l_id_mapping,            \* ID_MAPPING
    l_stats,                 \* TABLE_STATS
    l_success_count,         \* success_count of main()
    l_errors,                \* number of statements the store refused so far
    l_choices                \* history: the answers typed, "" for a file not asked about

projector_vars ==
    <<pc, df, dropped_job_no_company, dropped_job_all_na,
      skill_map, company_map, location_map, role_map,
      skills, companies, locations, roles,
      job_postings, job_skills, job_roles, job_levels,
      skill_id, company_id, location_id, role_id, job_id, summary, emitted>>

extractor_vars == <<x_input, x_file, x_before, x_after, x_filled, x_prev, x_runs>>

canonicalizer_vars ==
    <<n_input, n_dir, n_out, n_pc, n_todo, n_counter, n_city_report, n_skill_report,
      n_printed, n_total_unmatched_city, n_runs, n_fed>>

enricher_vars ==
    <<k_input, k_dir, k_out, k_pc, k_error, k_todo, k_all_unmatched, k_report, k_printed,
      k_runs, k_fed>>

\* the variables of steps 2.2, 2.3, 2.5 and 2.10
pipeline_vars == <<projector_vars, extractor_vars, canonicalizer_vars, enricher_vars>>

runner_vars == <<r_pc, r_missing, r_start, r_end, r_step, r_launched, r_printed, r_error>>

guard_vars == <<g_extracted, g_mapped, g_exit, g_printed, g_checked>>

loader_vars ==
    <<l_pc, l_csv, l_missing, l_db, l_todo, l_id_mapping, l_stats, l_success_count,
      l_errors, l_choices>>

\* the variables of the programs around these steps
outer_vars == <<runner_vars, guard_vars, loader_vars>>

vars == <<pipeline_vars, outer_vars>>

\* the Signal Extractor is not running
IdleExtractor ==
    /\ x_input = <<>>
    /\ x_file = <<>>
    /\ x_before = <<>>
    /\ x_after = <<>>
    /\ x_filled = ZeroFilled
    /\ x_prev = <<>>
    /\ x_runs = 0

\* step 2.5 is not running
IdleEnricher ==
    /\ k_input = <<>>
    /\ k_dir = <<>>
    /\ k_out = EmptyDict
    /\ k_pc = "idle"
    /\ k_error = ""
    /\ k_todo = <<>>
    /\ k_all_unmatched = <<>>
    /\ k_report = <<>>
    /\ k_printed = <<>>
    /\ k_runs = 0
    /\ k_fed = 0

\* the runner of step 2 is not running
IdleRunner ==
    /\ r_pc = "idle"
    /\ r_missing = {}
    /\ r_start = 0
    /\ r_end = 0
    /\ r_step = 0
    /\ r_launched = <<>>
    /\ r_printed = <<>>
    /\ r_error = ""

\* the mapping check has not run and its directories are empty
IdleGuard ==
    /\ g_extracted = {}
    /\ g_mapped = {}
    /\ g_exit = -1
    /\ g_printed = <<>>
    /\ g_checked = <<>>

\* the loader is not running
IdleLoader ==
    /\ l_pc = "idle"
    /\ l_csv = <<>>
    /\ l_missing = {}
    /\ l_db = <<>>
    /\ l_todo = <<>>
    /\ l_id_mapping = <<>>
    /\ l_stats = <<>>
    /\ l_success_count = 0
    /\ l_errors = 0
    /\ l_choices = <<>>

\* the programs around the steps are not running
IdleOuter == IdleRunner /\ IdleGuard /\ IdleLoader

\* the Canonicalizer is not running
IdleCanonicalizer ==
    /\ n_input = <<>>
    /\ n_dir = <<>>
    /\ n_out = EmptyDict
    /\ n_pc = "idle"
    /\ n_todo = <<>>
    /\ n_counter = <<>>
    /\ n_city_report = <<>>
    /\ n_skill_report = <<>>
    /\ n_printed = <<>>
    /\ n_total_unmatched_city = 0
    /\ n_runs = 0
    /\ n_fed = 0

\* ------------------------------------------------------------------------
\* Step 2.10: run()
\* ------------------------------------------------------------------------
\* the locals of run() as one value
Locals ==
    [dropped_job_no_company |-> dropped_job_no_company,
     dropped_job_all_na |-> dropped_job_all_na,
     skill_map |-> skill_map, company_map |-> company_map,
     location_map |-> location_map, role_map |-> role_map,
     skills |-> skills, companies |-> companies,
     locations |-> locations, roles |-> roles,
     job_postings |-> job_postings, job_skills |-> job_skills,
     job_roles |-> job_roles, job_levels |-> job_levels,
     skill_id |-> skill_id, company_id |-> company_id,
     location_id |-> location_id, role_id |-> role_id, job_id |-> job_id]

\* df.drop(columns=["__source_id", "__source_name"], errors="ignore")
drop_source_columns(row) == [c \in (DOMAIN row) \ SOURCE_COLUMNS |-> row[c]]

no_company(r) == isna(r.company_name) \/ strip(r.company_name) \in NA_SET

meaningful_values(r) == {c \in DOMAIN r : notna(r[c]) /\ strip(r[c]) \notin NA_SET}

\* variant: the "not in company_map" test is missing
process_company_always_insert(st, r) ==
    [st EXCEPT
        !.company_map = dict_set(@, r.company_name, st.company_id),
        !.companies = Append(@,
            [company_id |-> st.company_id,
             company_name |-> r.company_name,
             size |-> IF r.company_size \in COMPANY_SIZES THEN r.company_size ELSE None,
             industry |-> IF r.industry \in INDUSTRIES THEN r.industry ELSE None]),
        !.company_id = @ + 1]

\* variant: a company seen again takes the size and industry of the later row
process_company_last_wins(st, r) ==
    IF r.company_name \notin DOMAIN st.company_map
    THEN [st EXCEPT
            !.company_map = dict_set(@, r.company_name, st.company_id),
            !.companies = Append(@,
                [company_id |-> st.company_id,
                 company_name |-> r.company_name,
                 size |-> IF r.company_size \in COMPANY_SIZES THEN r.company_size ELSE None,
                 industry |-> IF r.industry \in INDUSTRIES THEN r.industry ELSE None]),
            !.company_id = @ + 1]
    ELSE [st EXCEPT
            !.companies[st.company_map[r.company_name]] =
                [@ EXCEPT
                    !.size = IF r.company_size \in COMPANY_SIZES THEN r.company_size ELSE None,
                    !.industry = IF r.industry \in INDUSTRIES THEN r.industry ELSE None]]

process_company(st, r) ==
    IF r.company_name \notin DOMAIN st.company_map
    THEN [st EXCEPT
            !.company_map = dict_set(@, r.company_name, st.company_id),
            !.companies = Append(@,
                [company_id |-> st.company_id,
                 company_name |-> r.company_name,
                 size |-> IF r.company_size \in COMPANY_SIZES THEN r.company_size ELSE None,
                 industry |-> IF r.industry \in INDUSTRIES THEN r.industry ELSE None]),
            !.company_id = @ + 1]
    ELSE st

loc_key(r) == <<r.city, r.country, r.country_iso>>

\* variant: a location seen again is given a fresh id
process_location_renumber(st, r) ==
    [st EXCEPT
        !.location_map = dict_set(@, loc_key(r), st.location_id),
        !.locations = Append(@,
            [location_id |-> st.location_id,
             city |-> to_null(r.city),
             country |-> to_null(r.country),
             country_iso |-> to_null(r.country_iso),
             latitude |-> IF notna(r.latitude) THEN r.latitude ELSE None,
             longitude |-> IF notna(r.longitude) THEN r.longitude ELSE None,
             population |-> IF notna(r.population) THEN r.population ELSE None]),
        !.location_id = @ + 1]

process_location(st, r) ==
    IF loc_key(r) \notin DOMAIN st.location_map
    THEN [st EXCEPT
            !.location_map = dict_set(@, loc_key(r), st.location_id),
            !.locations = Append(@,
                [location_id |-> st.location_id,
                 city |-> to_null(r.city),
                 country |-> to_null(r.country),
                 country_iso |-> to_null(r.country_iso),
                 latitude |-> IF notna(r.latitude) THEN r.latitude ELSE None,
                 longitude |-> IF notna(r.longitude) THEN r.longitude ELSE None,
                 population |-> IF notna(r.population) THEN r.population ELSE None]),
            !.location_id = @ + 1]
    ELSE st

\* variant: education_level goes through to_null instead of the enum test
emit_job_posting_unvalidated(st, r) ==
    [st EXCEPT !.job_postings = Append(@,
        [job_id |-> st.job_id,
         company_id |-> st.company_map[r.company_name],
         location_id |-> st.location_map[loc_key(r)],
         posted_date |-> to_null(r.posted_date),
         min_salary |-> to_null(r.min_salary),
         max_salary |-> to_null(r.max_salary),
         currency |-> to_null(r.currency),
         required_exp_years |-> to_null(r.required_exp_years),
         education_level |-> to_null(r.education_level),
         employment_type |->
            IF r.employment_type \in EMPLOYMENT_TYPES THEN r.employment_type ELSE None,
         job_description |-> IF notna(r.job_description) THEN r.job_description ELSE None,
         remote_option |->
            IF r.remote_option \in REMOTE_OPTIONS THEN r.remote_option ELSE None])]

emit_job_posting(st, r) ==
    [st EXCEPT !.job_postings = Append(@,
        [job_id |-> st.job_id,
         company_id |-> st.company_map[r.company_name],
         location_id |-> st.location_map[loc_key(r)],
         posted_date |-> to_null(r.posted_date),
         min_salary |-> to_null(r.min_salary),
         max_salary |-> to_null(r.max_salary),
         currency |-> to_null(r.currency),
         required_exp_years |-> to_null(r.required_exp_years),
         education_level |->
            IF r.education_level \in EDUCATION_LEVELS THEN r.education_level ELSE None,
         employment_type |->
            IF r.employment_type \in EMPLOYMENT_TYPES THEN r.employment_type ELSE None,
         job_description |-> IF notna(r.job_description) THEN r.job_description ELSE None,
         remote_option |->
            IF r.remote_option \in REMOTE_OPTIONS THEN r.remote_option ELSE None])]

\* [s.strip() for s in str(x).split("|") if s.strip() and s.strip() != "__NA__"]
raw_skills(x) ==
    LET parts == split(x, "|")
    IN  SelectSeq([i \in 1..Len(parts) |-> strip(parts[i])],
                  LAMBDA s : s # "" /\ s # "__NA__")

\* variant: the junction row takes the id counter instead of skill_map[skill]
process_skill_counter_ref(st, skill) ==
    IF skill \notin DOMAIN SKILL_TO_CATEGORY
    THEN st
    ELSE LET s1 == IF skill \notin DOMAIN st.skill_map
                   THEN [st EXCEPT
                           !.skill_map = dict_set(@, skill, st.skill_id),
                           !.skills = Append(@,
                               [skill_id |-> st.skill_id,
                                skill_name |-> skill,
                                skill_category |-> SKILL_TO_CATEGORY[skill]]),
                           !.skill_id = @ + 1]
                   ELSE st
         IN  [s1 EXCEPT !.job_skills = Append(@,
                 [job_id |-> s1.job_id, skill_id |-> s1.skill_id])]

process_skill(st, skill) ==
    IF skill \notin DOMAIN SKILL_TO_CATEGORY
    THEN st
    ELSE LET s1 == IF skill \notin DOMAIN st.skill_map
                   THEN [st EXCEPT
                           !.skill_map = dict_set(@, skill, st.skill_id),
                           !.skills = Append(@,
                               [skill_id |-> st.skill_id,
                                skill_name |-> skill,
                                skill_category |-> SKILL_TO_CATEGORY[skill]]),
                           !.skill_id = @ + 1]
                   ELSE st
         IN  [s1 EXCEPT !.job_skills = Append(@,
                 [job_id |-> s1.job_id, skill_id |-> s1.skill_map[skill]])]

RECURSIVE process_skill_list(_, _)
process_skill_list(st, list) ==
    IF list = <<>> THEN st
    ELSE process_skill_list(process_skill(st, Head(list)), Tail(list))

process_skills(st, r) ==
    IF notna(r.skill_name) /\ strip(r.skill_name) # "__NA__"
    THEN process_skill_list(st, raw_skills(r.skill_name))
    ELSE st

\* [x.strip() for x in str(r["role_name"]).split("|")]
raw_roles(x) == LET parts == split(x, "|") IN [i \in 1..Len(parts) |-> strip(parts[i])]

\* variant: the ROLE_ENUM test is missing
process_role_no_enum(st, role) ==
    LET s1 == IF role \notin DOMAIN st.role_map
              THEN [st EXCEPT
                      !.role_map = dict_set(@, role, st.role_id),
                      !.roles = Append(@, [role_id |-> st.role_id, role_name |-> role]),
                      !.role_id = @ + 1]
              ELSE st
    IN  [s1 EXCEPT !.job_roles = Append(@,
            [job_id |-> s1.job_id, role_id |-> s1.role_map[role]])]

process_role(st, role) ==
    IF role \notin ROLE_ENUM
    THEN st
    ELSE LET s1 == IF role \notin DOMAIN st.role_map
                   THEN [st EXCEPT
                           !.role_map = dict_set(@, role, st.role_id),
                           !.roles = Append(@, [role_id |-> st.role_id, role_name |-> role]),
                           !.role_id = @ + 1]
                   ELSE st
         IN  [s1 EXCEPT !.job_roles = Append(@,
                 [job_id |-> s1.job_id, role_id |-> s1.role_map[role]])]

RECURSIVE process_role_list(_, _)
process_role_list(st, list) ==
    IF list = <<>> THEN st
    ELSE process_role_list(process_role(st, Head(list)), Tail(list))

process_roles(st, r) ==
    IF notna(r.role_name)
    THEN process_role_list(st, raw_roles(r.role_name))
    ELSE st

process_level(st, r) ==
    IF r.level \in JOB_LEVELS
    THEN [st EXCEPT !.job_levels = Append(@, [job_id |-> st.job_id, level |-> r.level])]
    ELSE st

\* variant: the all-NA test comes before the no-company test
process_row_all_na_first(st, r) ==
    IF meaningful_values(r) = {}
    THEN [st EXCEPT !.dropped_job_all_na = @ + 1]
    ELSE IF no_company(r)
    THEN [st EXCEPT !.dropped_job_no_company = @ + 1]
    ELSE LET s1 == process_company(st, r)
             s2 == process_location(s1, r)
             s3 == emit_job_posting(s2, r)
             s4 == process_skills(s3, r)
             s5 == process_roles(s4, r)
             s6 == process_level(s5, r)
         IN  [s6 EXCEPT !.job_id = @ + 1]

\* variant: a dropped row takes a job id as well
process_row_drop_takes_id(st, r) ==
    IF no_company(r)
    THEN [st EXCEPT !.dropped_job_no_company = @ + 1, !.job_id = @ + 1]
    ELSE IF meaningful_values(r) = {}
    THEN [st EXCEPT !.dropped_job_all_na = @ + 1, !.job_id = @ + 1]
    ELSE LET s1 == process_company(st, r)
             s2 == process_location(s1, r)
             s3 == emit_job_posting(s2, r)
             s4 == process_skills(s3, r)
             s5 == process_roles(s4, r)
             s6 == process_level(s5, r)
         IN  [s6 EXCEPT !.job_id = @ + 1]

\* one iteration of "for _, r in df.iterrows()"
process_row(st, r) ==
    IF no_company(r)
    THEN [st EXCEPT !.dropped_job_no_company = @ + 1]
    ELSE IF meaningful_values(r) = {}
    THEN [st EXCEPT !.dropped_job_all_na = @ + 1]
    ELSE LET s1 == process_company(st, r)
             s2 == process_location(s1, r)
             s3 == emit_job_posting(s2, r)
             s4 == process_skills(s3, r)
             s5 == process_roles(s4, r)
             s6 == process_level(s5, r)
         IN  [s6 EXCEPT !.job_id = @ + 1]

\* the locals of run() before the loop
ProjectorStart ==
    /\ pc = "loop"
    /\ df = <<>>
    /\ dropped_job_no_company = 0
    /\ dropped_job_all_na = 0
    /\ skill_map = EmptyDict
    /\ company_map = EmptyDict
    /\ location_map = EmptyDict
    /\ role_map = EmptyDict
    /\ skills = <<>>
    /\ companies = <<>>
    /\ locations = <<>>
    /\ roles = <<>>
    /\ job_postings = <<>>
    /\ job_skills = <<>>
    /\ job_roles = <<>>
    /\ job_levels = <<>>
    /\ skill_id = 1
    /\ company_id = 1
    /\ location_id = 1
    /\ role_id = 1
    /\ job_id = 1
    /\ summary = [done |-> FALSE]
    /\ emitted = <<>>

InitProjector ==
    ProjectorStart /\ IdleExtractor /\ IdleCanonicalizer /\ IdleEnricher /\ IdleOuter

\* the loop of run() takes the next row of the combined file
ProcessRow ==
    /\ pc = "loop"
    /\ Len(df) < MaxRows
    /\ \E row \in InputRows :
          \E st \in {process_row(Locals, drop_source_columns(row))} :
              /\ df' = Append(df, row)
              /\ dropped_job_no_company' = st.dropped_job_no_company
              /\ dropped_job_all_na' = st.dropped_job_all_na
              /\ skill_map' = st.skill_map
              /\ company_map' = st.company_map
              /\ location_map' = st.location_map
              /\ role_map' = st.role_map
              /\ skills' = st.skills
              /\ companies' = st.companies
              /\ locations' = st.locations
              /\ roles' = st.roles
              /\ job_postings' = st.job_postings
              /\ job_skills' = st.job_skills
              /\ job_roles' = st.job_roles
              /\ job_levels' = st.job_levels
              /\ skill_id' = st.skill_id
              /\ company_id' = st.company_id
              /\ location_id' = st.location_id
              /\ role_id' = st.role_id
              /\ job_id' = st.job_id
              /\ emitted' = IF Len(st.job_postings) > Len(job_postings)
                            THEN Append(emitted, Len(df) + 1)
                            ELSE emitted
    /\ UNCHANGED <<pc, summary, extractor_vars, canonicalizer_vars, enricher_vars, outer_vars>>

\* the file is exhausted: the tables are saved and the summary is printed
Finish ==
    /\ pc = "loop"
    /\ pc' = "done"
    /\ summary' =
          [done |-> TRUE,
           input_rows |-> Len(df),
           dropped_no_company |-> dropped_job_no_company,
           dropped_all_na |-> dropped_job_all_na,
           total_dropped |-> dropped_job_no_company + dropped_job_all_na,
           job_postings |-> Len(job_postings),
           skills |-> Len(skills),
           job_skills |-> Len(job_skills),
           companies |-> Len(companies),
           locations |-> Len(locations),
           role_names |-> Len(roles),
           job_roles |-> Len(job_roles),
           job_levels |-> Len(job_levels)]
    /\ UNCHANGED <<df, dropped_job_no_company, dropped_job_all_na,
                   skill_map, company_map, location_map, role_map,
                   skills, companies, locations, roles,
                   job_postings, job_skills, job_roles, job_levels,
                   skill_id, company_id, location_id, role_id, job_id, emitted, extractor_vars,
                   canonicalizer_vars, enricher_vars, outer_vars>>

NextProjector == ProcessRow \/ Finish

SpecProjector == InitProjector /\ [][NextProjector]_vars

TypeProjector == Len(df) <= MaxRows

\* ------------------------------------------------------------------------
\* Step 2.2: extract_from_description(file_path)
\* ------------------------------------------------------------------------
\* number of extractions applied in a row to one file
MaxRuns == 2

\* number of rows of the mapped file
MaxFileRows == 1

MappedFiles == UNION {[1..n -> MappedRows] : n \in 1..MaxFileRows}

InitExtractor ==
    /\ x_input \in MappedFiles
    /\ x_file = x_input
    /\ x_before = <<>>
    /\ x_after = <<>>
    /\ x_filled = ZeroFilled
    /\ x_prev = <<>>
    /\ x_runs = 0
    /\ ProjectorStart
    /\ IdleCanonicalizer
    /\ IdleEnricher
    /\ IdleOuter

\* one call of extract_from_description: load, fill, save; the saved file is
\* the one the next call reads
ExtractFile ==
    /\ x_runs < MaxRuns
    /\ \E loaded \in {fillna_frame(read_csv(x_file), NA_VALUE)} :
         \E out \in {extract_rows(loaded, ZeroFilled, 1)} :
            /\ x_before' = loaded
            /\ x_after' = out.df
            /\ x_filled' = out.filled
            /\ x_file' = to_csv(out.df)
            /\ x_prev' = x_file
            /\ x_runs' = x_runs + 1
    /\ UNCHANGED <<x_input, projector_vars, canonicalizer_vars, enricher_vars, outer_vars>>

NextExtractor == ExtractFile

SpecExtractor == InitExtractor /\ [][NextExtractor]_vars

\* ------------------------------------------------------------------------
\* Step 2.3: run()
\* ------------------------------------------------------------------------
\* number of runs of the step
MaxNormRuns == 2

\* the orders in which iterdir() can list the files of that names
RECURSIVE listings(_)
listings(names) ==
    IF names = {} THEN {<<>>}
    ELSE UNION {{<<n>> \o l : l \in listings(names \ {n})} : n \in names}

InitCanonicalizer ==
    /\ n_input \in InputDirs
    /\ n_dir = n_input
    /\ n_out = EmptyDict
    /\ n_pc = "idle"
    /\ n_todo = <<>>
    /\ n_counter = <<>>
    /\ n_city_report = <<>>
    /\ n_skill_report = <<>>
    /\ n_printed = <<>>
    /\ n_total_unmatched_city = 0
    /\ n_runs = 0
    /\ n_fed = 0
    /\ ProjectorStart
    /\ IdleExtractor
    /\ IdleEnricher
    /\ IdleOuter

\* run() up to its loop, in a new process: the files to take, and the
\* unmatched-city report of the run before removed
StartRun ==
    /\ n_pc = "idle"
    /\ n_runs < MaxNormRuns
    /\ input_files(n_dir) # <<>>
    /\ n_pc' = "loop"
    /\ n_todo' = input_files(n_dir)
    /\ n_counter' = <<>>
    /\ n_city_report' = <<>>
    /\ n_printed' = <<>>
    /\ n_total_unmatched_city' = 0
    /\ UNCHANGED <<n_input, n_dir, n_out, n_skill_report, n_runs, n_fed,
                   projector_vars, extractor_vars,
                   enricher_vars, outer_vars>>

\* run() when INPUT_DIR holds no file it takes: it returns at once
RunNoFiles ==
    /\ n_pc = "idle"
    /\ n_runs < MaxNormRuns
    /\ input_files(n_dir) = <<>>
    /\ n_runs' = n_runs + 1
    /\ n_counter' = <<>>
    /\ n_printed' = <<>>
    /\ n_total_unmatched_city' = 0
    /\ UNCHANGED <<n_input, n_dir, n_out, n_pc, n_todo, n_city_report, n_skill_report,
                   n_fed, projector_vars, extractor_vars,
                   enricher_vars, outer_vars>>

\* one turn of the loop of run(): normalize_city_file on the next file
NormalizeFile ==
    /\ n_pc = "loop"
    /\ n_todo # <<>>
    /\ \E res \in {normalize_city_file(Head(n_todo).name, Head(n_todo).rows,
                                       n_counter, n_city_report, n_skill_report)} :
          /\ n_counter' = res.counter
          /\ n_city_report' = res.city_report
          /\ n_skill_report' = res.skill_report
          /\ n_out' = IF res.output # <<>>
                      THEN dict_set(n_out, output_name(Head(n_todo).name), res.output)
                      ELSE n_out
          /\ n_printed' = n_printed \o res.summary
          /\ n_total_unmatched_city' =
                IF res.returned # <<>> /\ res.returned[1] # 0
                THEN n_total_unmatched_city + res.returned[1]
                ELSE n_total_unmatched_city
    /\ n_todo' = Tail(n_todo)
    /\ UNCHANGED <<n_input, n_dir, n_pc, n_runs, n_fed, projector_vars, extractor_vars,
                   enricher_vars, outer_vars>>

\* run() after its loop: the unmatched-skill report of the whole run
FinishRun ==
    /\ n_pc = "loop"
    /\ n_todo = <<>>
    /\ n_skill_report' = IF n_counter # <<>> THEN unmatched_skill_rows(n_counter)
                         ELSE n_skill_report
    /\ n_pc' = "idle"
    /\ n_runs' = n_runs + 1
    /\ UNCHANGED <<n_input, n_dir, n_out, n_todo, n_counter, n_city_report, n_printed,
                   n_total_unmatched_city, n_fed, projector_vars, extractor_vars,
                   enricher_vars, outer_vars>>

\* The files the step saved are given to it again: INPUT_DIR holds them, each
\* under its name without the prefix that makes run() leave a file out.
Resubmit ==
    /\ n_pc = "idle"
    /\ n_runs >= 1
    /\ n_runs < MaxNormRuns
    /\ n_fed < n_runs
    /\ DOMAIN n_out # {}
    /\ \E l \in listings(DOMAIN n_out) :
          n_dir' = [k \in 1..Len(l) |->
                       [name |-> remove_text(l[k], "normalized_", 0), rows |-> n_out[l[k]]]]
    /\ n_fed' = n_runs
    /\ UNCHANGED <<n_input, n_out, n_pc, n_todo, n_counter, n_city_report, n_skill_report,
                   n_printed, n_total_unmatched_city, n_runs, projector_vars, extractor_vars,
                   enricher_vars, outer_vars>>

NextCanonicalizer == StartRun \/ RunNoFiles \/ NormalizeFile \/ FinishRun \/ Resubmit

SpecCanonicalizer == InitCanonicalizer /\ [][NextCanonicalizer]_vars

\* ------------------------------------------------------------------------
\* Step 2.5: run_enrich()
\* ------------------------------------------------------------------------
\* number of runs of step 2.5
MaxEnrichRuns == 2

InitEnricher ==
    /\ k_input \in EnrichDirs
    /\ k_dir = k_input
    /\ k_out = EmptyDict
    /\ k_pc = "idle"
    /\ k_error = ""
    /\ k_todo = <<>>
    /\ k_all_unmatched = <<>>
    /\ k_report = <<>>
    /\ k_printed = <<>>
    /\ k_runs = 0
    /\ k_fed = 0
    /\ ProjectorStart
    /\ IdleExtractor
    /\ IdleCanonicalizer
    /\ IdleOuter

\* run_enrich() up to its loop, in a new process: every entry of INPUT_DIR
\* is taken, and the unmatched-level report of the run before is removed
StartEnrich ==
    /\ k_pc = "idle"
    /\ k_runs < MaxEnrichRuns
    /\ k_pc' = "loop"
    /\ k_todo' = k_dir
    /\ k_all_unmatched' = <<>>
    /\ k_report' = <<>>
    /\ k_printed' = <<>>
    /\ UNCHANGED <<k_input, k_dir, k_out, k_error, k_runs, k_fed,
                   projector_vars, extractor_vars, canonicalizer_vars,
                   outer_vars>>

\* one turn of the loop of run_enrich(): enrich_file on the next file, saved
\* under its own name; an exception of enrich_file ends the process
EnrichFile ==
    /\ k_pc = "loop"
    /\ k_todo # <<>>
    /\ \E res \in {enrich_file(Head(k_todo).name, Head(k_todo).rows)} :
          /\ k_error' = res.error
          /\ k_pc' = IF res.error # "" THEN "failed" ELSE k_pc
          /\ k_out' = IF res.error # "" THEN k_out
                      ELSE dict_set(k_out, Head(k_todo).name, res.output)
          /\ k_all_unmatched' = k_all_unmatched \o res.unmatched_df
          /\ k_printed' = k_printed \o res.printed
    /\ k_todo' = Tail(k_todo)
    /\ UNCHANGED <<k_input, k_dir, k_report, k_runs, k_fed,
                   projector_vars, extractor_vars, canonicalizer_vars,
                   outer_vars>>

\* run_enrich() after its loop: the unmatched-level report of the whole run
FinishEnrich ==
    /\ k_pc = "loop"
    /\ k_todo = <<>>
    /\ k_report' = IF k_all_unmatched # <<>> THEN to_csv(drop_duplicates(k_all_unmatched))
                   ELSE k_report
    /\ k_pc' = "idle"
    /\ k_runs' = k_runs + 1
    /\ UNCHANGED <<k_input, k_dir, k_out, k_error, k_todo, k_all_unmatched, k_printed,
                   k_fed, projector_vars, extractor_vars, canonicalizer_vars,
                   outer_vars>>

\* The files the step saved are given to it again, under their names.
Reenrich ==
    /\ k_pc = "idle"
    /\ k_runs >= 1
    /\ k_runs < MaxEnrichRuns
    /\ k_fed < k_runs
    /\ \E l \in listings(DOMAIN k_out) :
          k_dir' = [k \in 1..Len(l) |-> [name |-> l[k], rows |-> k_out[l[k]]]]
    /\ k_fed' = k_runs
    /\ UNCHANGED <<k_input, k_out, k_pc, k_error, k_todo, k_all_unmatched, k_report,
                   k_printed, k_runs, projector_vars, extractor_vars, canonicalizer_vars,
                   outer_vars>>

NextEnricher == StartEnrich \/ EnrichFile \/ FinishEnrich \/ Reenrich

SpecEnricher == InitEnricher /\ [][NextEnricher]_vars

\* ------------------------------------------------------------------------
\* Runner of step 2: run()
\* ------------------------------------------------------------------------
InitRunner ==
    /\ r_pc = "ask"
    /\ r_missing \in MissingScripts
    /\ r_start = 0
    /\ r_end = 0
    /\ r_step = 0
    /\ r_launched = <<>>
    /\ r_printed = <<>>
    /\ r_error = ""
    /\ ProjectorStart
    /\ IdleExtractor
    /\ IdleCanonicalizer
    /\ IdleEnricher
    /\ IdleGuard
    /\ IdleLoader

\* run() up to its loop: ask_step_range() reads the two numbers and raises
\* ValueError, or returns them
AskStepRange ==
    /\ r_pc = "ask"
    /\ \E start \in StepInputs, end \in StepInputs :
          /\ r_start' = start
          /\ r_end' = end
          /\ r_error' = IF ask_step_range_error(start, end) # "" THEN "ValueError" ELSE ""
          /\ r_pc' = IF ask_step_range_error(start, end) # "" THEN "failed" ELSE "loop"
          /\ r_step' = IF ask_step_range_error(start, end) # "" THEN r_step ELSE start
    /\ UNCHANGED <<r_missing, r_launched, r_printed, pipeline_vars, guard_vars, loader_vars>>

\* run_step() up to the start of the script: FileNotFoundError when the
\* script is missing, else the line printed and the script started
RunStep ==
    /\ r_pc = "loop"
    /\ r_step <= r_end
    /\ IF r_step \in r_missing
       THEN /\ r_error' = "FileNotFoundError"
            /\ r_pc' = "failed"
            /\ UNCHANGED <<r_launched, r_printed>>
       ELSE /\ r_printed' = Append(r_printed, [text |-> "RUNNING STEP", step |-> r_step])
            /\ r_launched' = Append(r_launched, [step |-> r_step, script |-> STEPS[r_step],
                                                 exited |-> FALSE, returncode |-> 0])
            /\ r_pc' = "running"
            /\ UNCHANGED r_error
    /\ UNCHANGED <<r_missing, r_start, r_end, r_step, pipeline_vars, guard_vars, loader_vars>>

\* the script ends and subprocess.run returns or raises; run_step() prints
\* its last line and the loop goes to the next step
StepExits ==
    /\ r_pc = "running"
    /\ \E returncode \in ExitStatuses :
          /\ r_launched' = [r_launched EXCEPT ![Len(r_launched)] =
                               [@ EXCEPT !.exited = TRUE, !.returncode = returncode]]
          /\ r_error' = subprocess_run(returncode)
          /\ r_pc' = IF subprocess_run(returncode) # "" THEN "failed" ELSE "loop"
          /\ r_printed' = IF subprocess_run(returncode) # "" THEN r_printed
                          ELSE Append(r_printed, [text |-> "DONE STEP", step |-> r_step])
          /\ r_step' = IF subprocess_run(returncode) # "" THEN r_step ELSE r_step + 1
    /\ UNCHANGED <<r_missing, r_start, r_end, pipeline_vars, guard_vars, loader_vars>>

\* run() after its loop: the success banner
FinishPipeline ==
    /\ r_pc = "loop"
    /\ r_step > r_end
    /\ r_printed' = Append(r_printed, [text |-> "STEP 2 PIPELINE COMPLETED SUCCESSFULLY",
                                       step |-> 0])
    /\ r_pc' = "done"
    /\ UNCHANGED <<r_missing, r_start, r_end, r_step, r_launched, r_error, pipeline_vars, guard_vars, loader_vars>>

NextRunner == AskStepRange \/ RunStep \/ StepExits \/ FinishPipeline

SpecRunner == InitRunner /\ [][NextRunner]_vars

\* ------------------------------------------------------------------------
\* Step 2.1: the mapping check and the column mapper that feeds MAPPED_DIR
\* ------------------------------------------------------------------------
InitGuard ==
    /\ g_extracted \in SUBSET ExtractedEntries
    /\ g_mapped \in SUBSET MappedEntries
    /\ g_exit = -1
    /\ g_printed = <<>>
    /\ g_checked = <<>>
    /\ ProjectorStart
    /\ IdleExtractor
    /\ IdleCanonicalizer
    /\ IdleEnricher
    /\ IdleRunner
    /\ IdleLoader

\* the column mapper saves the mapped version of one of the *.csv files of
\* EXTRACTED_DIR
MapFile ==
    /\ \E selected_file \in {f \in g_extracted : path_suffix(f) = ".csv" /\ is_file(f)} :
          /\ mapped_name(selected_file) \notin g_mapped
          /\ g_mapped' = g_mapped \cup {mapped_name(selected_file)}
    /\ UNCHANGED <<g_extracted, g_exit, g_printed, g_checked, pipeline_vars, runner_vars, loader_vars>>

\* 2.1_mapping_check.py from its first line to sys.exit
MappingCheck ==
    /\ Let2(data_files(g_extracted), data_files(g_mapped),
            LAMBDA extracted_files, mapped_files :
                /\ g_printed' = [extracted_count |-> Len(extracted_files),
                                 mapped_count |-> Len(mapped_files),
                                 total_extracted_rows |-> total_rows_of(extracted_files),
                                 total_mapped_rows |-> total_rows_of(mapped_files),
                                 passed |-> mapping_result(extracted_files, mapped_files) = 0]
                /\ g_exit' = mapping_result(extracted_files, mapped_files))
    /\ g_checked' = [extracted |-> g_extracted, mapped |-> g_mapped]
    /\ UNCHANGED <<g_extracted, g_mapped, pipeline_vars, runner_vars, loader_vars>>

NextGuard == MapFile \/ MappingCheck

SpecGuard == InitGuard /\ [][NextGuard]_vars

\* ------------------------------------------------------------------------
\* Step 3.2: main() of the loader
\* ------------------------------------------------------------------------
InitLoader ==
    /\ l_pc = "connect"
    /\ l_csv \in LoaderFiles
    /\ l_missing \in {{}, {"job_levels.csv"}}
    /\ l_db \in {EmptyStore, PriorStore}
    /\ l_todo = LOAD_ORDER
    /\ l_id_mapping = ID_MAPPING
    /\ l_stats = TABLE_STATS
    /\ l_success_count = 0
    /\ l_errors = 0
    /\ l_choices = <<>>
    /\ ProjectorStart
    /\ IdleExtractor
    /\ IdleCanonicalizer
    /\ IdleEnricher
    /\ IdleRunner
    /\ IdleGuard

\* main() up to PHASE 1: without a connection it returns at once
ConnectDb ==
    /\ l_pc = "connect"
    /\ \E connected \in BOOLEAN : l_pc' = IF connected THEN "load" ELSE "done"
    /\ UNCHANGED <<l_csv, l_missing, l_db, l_todo, l_id_mapping, l_stats, l_success_count,
                   l_errors, l_choices, pipeline_vars, runner_vars, guard_vars>>

\* a file of DATA_DIR is missing: the load function returns False
SkipMissingFile ==
    /\ l_pc = "load"
    /\ l_todo # <<>>
    /\ Head(l_todo) \in l_missing
    /\ l_todo' = Tail(l_todo)
    /\ l_choices' = Append(l_choices, "")
    /\ UNCHANGED <<l_pc, l_csv, l_missing, l_db, l_id_mapping, l_stats, l_success_count,
                   l_errors, pipeline_vars, runner_vars, guard_vars>>

\* PHASE 1 and PHASE 2: load_csv_to_db_optimized on the next file
LoadTable ==
    /\ l_pc = "load"
    /\ l_todo # <<>>
    /\ Head(l_todo) \notin l_missing
    /\ TABLE_MAPPINGS[Head(l_todo)].id_column # ""
    /\ \E choice \in {"y", "n"}, failing \in -1..batch_count(Len(l_csv[Head(l_todo)])),
          burn \in BOOLEAN :
          \E res \in {load_csv_to_db_optimized(l_db, l_id_mapping, l_stats, Head(l_todo),
                                               l_csv[Head(l_todo)], choice, failing, burn)} :
              /\ failing # 0 =>
                    /\ choice = "y"
                    /\ l_errors < MaxStoreErrors
                    /\ failing <= res.batches
              /\ burn => failing > 0
              /\ l_db' = res.db
              /\ l_id_mapping' = res.id_mapping
              /\ l_stats' = res.stats
              /\ l_success_count' = IF res.ok THEN l_success_count + 1 ELSE l_success_count
              /\ l_errors' = IF failing # 0 THEN l_errors + 1 ELSE l_errors
              /\ l_choices' = Append(l_choices, choice)
    /\ l_todo' = Tail(l_todo)
    /\ UNCHANGED <<l_pc, l_csv, l_missing, pipeline_vars, runner_vars, guard_vars>>

\* PHASE 3: load_csv_with_fk_mapping_optimized on the next file
LoadJunctionTable ==
    /\ l_pc = "load"
    /\ l_todo # <<>>
    /\ Head(l_todo) \notin l_missing
    /\ TABLE_MAPPINGS[Head(l_todo)].id_column = ""
    /\ \E choice \in {"y", "n"}, failing \in -1..batch_count(Len(l_csv[Head(l_todo)])) :
          \E res \in {load_csv_with_fk_mapping_optimized(l_db, l_id_mapping, l_stats,
                                                         Head(l_todo), l_csv[Head(l_todo)],
                                                         choice, failing)} :
              /\ failing # 0 =>
                    /\ choice = "y"
                    /\ l_errors < MaxStoreErrors
                    /\ failing <= res.batches
              /\ l_db' = res.db
              /\ l_stats' = res.stats
              /\ l_success_count' = IF res.ok THEN l_success_count + 1 ELSE l_success_count
              /\ l_errors' = IF failing # 0 THEN l_errors + 1 ELSE l_errors
              /\ l_choices' = Append(l_choices, choice)
    /\ l_todo' = Tail(l_todo)
    /\ UNCHANGED <<l_pc, l_csv, l_missing, l_id_mapping, pipeline_vars, runner_vars,
                   guard_vars>>

\* main() after PHASE 3: the connection is closed and the summary printed
FinishLoad ==
    /\ l_pc = "load"
    /\ l_todo = <<>>
    /\ l_pc' = "done"
    /\ UNCHANGED <<l_csv, l_missing, l_db, l_todo, l_id_mapping, l_stats, l_success_count,
                   l_errors, l_choices, pipeline_vars, runner_vars, guard_vars>>

NextLoader == ConnectDb \/ SkipMissingFile \/ LoadTable \/ LoadJunctionTable \/ FinishLoad

SpecLoader == InitLoader /\ [][NextLoader]_vars

\* ------------------------------------------------------------------------
\* Signal Extractor: properties
\* ------------------------------------------------------------------------
\* the target fields of row i that the last extraction filled
FilledFields(i) ==
    {f \in TARGET_FIELDS : x_before[i][f] = NA_VALUE /\ x_after[i][f] # NA_VALUE}

\* C1: for every row and every target field, a value that is not "__NA__"
\* when the loop of extract_from_description starts (whether a real value,
\* "__INVALID__" or "__UNMATCHED__") is the value of the field after the loop
\* and the text of the cell in the saved file.
C1_NoOverride ==
    x_runs >= 1 =>
        \A i \in 1..Len(x_before) : \A f \in TARGET_FIELDS :
            x_before[i][f] # NA_VALUE =>
                x_after[i][f] = x_before[i][f] /\ x_file[i][f] = x_before[i][f]

\* an extraction met a row whose description says "remote" while remote_option
\* was already "false", kept it, and filled another field of the same row
C1_Witness ==
    /\ x_runs = 1
    /\ \E i \in 1..Len(x_before) :
          /\ x_before[i]["remote_option"] = "false"
          /\ extract_remote(lower(x_before[i]["job_description"]))
          /\ x_after[i]["remote_option"] = "false"
          /\ FilledFields(i) # {}

\* C2: an extraction applied to the file saved by an extraction saves the same
\* file again: extract(extract(r)) = extract(r) for every row, cell by cell.
C2_Idempotent == x_runs >= 2 => x_file = x_prev

\* a second extraction ran on a file in which the first one had filled the
\* salary together with the currency and the skill names together with their
\* category
C2_Witness ==
    /\ x_runs = 2
    /\ \E i \in 1..Len(x_input) :
          /\ \A f \in {"min_salary", "max_salary", "currency", "skill_name", "skill_category"} :
                /\ x_input[i][f] = NA_VALUE
                /\ x_prev[i][f] \notin {NA_VALUE, ""}
          /\ x_file[i] = x_prev[i]

\* the description of row i holds a salary range extract_salary_from_text accepts
AcceptableSalary(i) ==
    salary_decision(salary_scan(x_before[i]["job_description"]), NA_VALUE, NA_VALUE).filled

SALARY_FIELDS == {"min_salary", "max_salary", "currency"}

\* C18: a row in which min_salary or max_salary holds a value other than
\* "__NA__" when the loop starts has the min_salary, max_salary and currency it
\* had, after the loop and in the saved file, whatever its description says.
C18_SalaryOnlyWhenBothAbsent ==
    x_runs >= 1 =>
        \A i \in 1..Len(x_before) :
            (x_before[i]["min_salary"] # NA_VALUE \/ x_before[i]["max_salary"] # NA_VALUE) =>
                \A f \in SALARY_FIELDS :
                    x_after[i][f] = x_before[i][f] /\ x_file[i][f] = x_before[i][f]

\* an extraction met a row with a min_salary and no max_salary whose
\* description holds an acceptable range, and left max_salary and currency absent
C18_Witness ==
    /\ x_runs = 1
    /\ \E i \in 1..Len(x_before) :
          /\ x_before[i]["min_salary"] = "500"
          /\ x_before[i]["max_salary"] = NA_VALUE
          /\ AcceptableSalary(i)
          /\ x_after[i]["max_salary"] = NA_VALUE
          /\ x_after[i]["currency"] = NA_VALUE

\* C19: a record whose description is "Salary: $80K-$100K per year" and
\* whose min_salary, max_salary and currency are "__NA__" is saved with
\* min_salary 80000, max_salary 100000 and currency USD.
C19_SalaryExample ==
    x_runs = 1 =>
        \A i \in 1..Len(x_before) :
            (/\ x_before[i]["job_description"] = "Salary: $80K-$100K per year"
             /\ \A f \in SALARY_FIELDS : x_before[i][f] = NA_VALUE) =>
                /\ x_file[i]["min_salary"] = "80000"
                /\ x_file[i]["max_salary"] = "100000"
                /\ x_file[i]["currency"] = "USD"

\* the field each counter of extract_from_description is about
COUNTER_FIELD ==
    [filled_city |-> "city", filled_country |-> "country", filled_remote |-> "remote_option",
     filled_salary |-> "min_salary", filled_currency |-> "currency",
     filled_skills |-> "skill_name", filled_skill_category |-> "skill_category",
     filled_exp_years |-> "required_exp_years", filled_education |-> "education_level",
     filled_industry |-> "industry", filled_company_size |-> "company_size",
     filled_employment |-> "employment_type", filled_level |-> "level"]

\* the rows whose field f the last extraction changed from "__NA__" to a value
RowsFilled(f) ==
    {i \in 1..Len(x_before) : x_before[i][f] = NA_VALUE /\ x_after[i][f] # NA_VALUE}

\* C20: at the end of extract_from_description every filled_* counter is the
\* number of records whose field changed from "__NA__" to an extracted value
\* (filled_salary: min_salary and max_salary together).
C20_CountersMatchFills ==
    x_runs >= 1 =>
        /\ \A c \in DOMAIN COUNTER_FIELD :
              x_filled[c] = Cardinality(RowsFilled(COUNTER_FIELD[c]))
        /\ x_filled["filled_salary"] = Cardinality(RowsFilled("max_salary"))

\* the numbers found in the accepted currency windows of the description of row i
NumbersFound(i) ==
    Let(accepted_hits(lower(x_before[i]["job_description"])), LAMBDA accepted :
        UNION {{to_int(remove_chars(accepted[n].nums[m], {".", ","})) :
                   m \in 1..Len(accepted[n].nums)} : n \in 1..Len(accepted)})

SALARY_SPREAD_CEILING == 10000000

\* C21: for a row whose description was read, a filled salary is the
\* smallest and the largest of the numbers found in the accepted currency
\* windows, with min <= max and max - min <= 10,000,000; when no number is
\* found there, or their spread exceeds 10,000,000, min_salary, max_salary
\* and currency stay as they were.
C21_SalaryMinMax ==
    x_runs = 1 =>
        \A i \in 1..Len(x_before) :
            x_before[i]["job_description"] # NA_VALUE =>
                /\ ("min_salary" \in FilledFields(i) \/ "max_salary" \in FilledFields(i)) =>
                      /\ NumbersFound(i) # {}
                      /\ x_after[i]["min_salary"] = int_to_str(Min(NumbersFound(i)))
                      /\ x_after[i]["max_salary"] = int_to_str(Max(NumbersFound(i)))
                      /\ Max(NumbersFound(i)) - Min(NumbersFound(i)) <= SALARY_SPREAD_CEILING
                /\ (\/ NumbersFound(i) = {}
                    \/ Max(NumbersFound(i)) - Min(NumbersFound(i)) > SALARY_SPREAD_CEILING) =>
                      \A f \in SALARY_FIELDS : x_after[i][f] = x_before[i][f]

SALARY_MIN_VALUE == 100

\* the numbers of at least 100 among them
ValuesFound(i) == {v \in NumbersFound(i) : v >= SALARY_MIN_VALUE}

\* C21, amended: the same with the numbers of at least 100 found in the
\* accepted currency windows in the place of all the numbers found there;
\* a row that had a min_salary or a max_salary is not filled (C18).
C21_SalaryMinMaxOfValues ==
    x_runs = 1 =>
        \A i \in 1..Len(x_before) :
            x_before[i]["job_description"] # NA_VALUE =>
                /\ ("min_salary" \in FilledFields(i) \/ "max_salary" \in FilledFields(i)) =>
                      /\ ValuesFound(i) # {}
                      /\ x_after[i]["min_salary"] = int_to_str(Min(ValuesFound(i)))
                      /\ x_after[i]["max_salary"] = int_to_str(Max(ValuesFound(i)))
                      /\ Min(ValuesFound(i)) <= Max(ValuesFound(i))
                      /\ Max(ValuesFound(i)) - Min(ValuesFound(i)) <= SALARY_SPREAD_CEILING
                /\ (\/ ValuesFound(i) = {}
                    \/ Max(ValuesFound(i)) - Min(ValuesFound(i)) > SALARY_SPREAD_CEILING) =>
                      \A f \in SALARY_FIELDS : x_after[i][f] = x_before[i][f]
                /\ (/\ ValuesFound(i) # {}
                    /\ Max(ValuesFound(i)) - Min(ValuesFound(i)) <= SALARY_SPREAD_CEILING
                    /\ x_before[i]["min_salary"] = NA_VALUE
                    /\ x_before[i]["max_salary"] = NA_VALUE) =>
                      "min_salary" \in FilledFields(i)

\* an extraction filled 1500 and 2000 from windows that also hold a number
\* below 100, and left a row alone whose numbers are more than 10,000,000 apart
C21_Witness ==
    /\ x_runs = 1
    /\ \E i \in 1..Len(x_before) :
          \/ /\ "min_salary" \in FilledFields(i)
             /\ x_after[i]["min_salary"] = "1500"
             /\ x_after[i]["max_salary"] = "2000"
             /\ \E v \in NumbersFound(i) : v < SALARY_MIN_VALUE
          \/ /\ ValuesFound(i) = {500, 20000000}
             /\ x_before[i]["min_salary"] = NA_VALUE
             /\ x_after[i]["min_salary"] = NA_VALUE

\* the lower-cased description of row i
DescText(i) == lower(x_before[i]["job_description"])

\* a level code (en, mi, se, ex) is accepted in the description of row i
LevelAccepted(i) ==
    \E n \in 1..Len(LEVEL_YEAR_MAP) : level_keyword_hit(DescText(i), LEVEL_YEAR_MAP[n].kw)

\* the numeric candidates of the description of row i whose window of 40
\* characters holds no company-history term
AcceptedCandidates(i) ==
    UNION {{m.years : m \in {m \in {exp_finditer(k, DescText(i), 0)[n] :
                                         n \in 1..Len(exp_finditer(k, DescText(i), 0))} :
                                 ~contains_any(window_around(DescText(i), m.start, m.end, 40),
                                               COMPANY_CONTEXT)}} :
              k \in {EXP_PATTERNS[n] : n \in 1..Len(EXP_PATTERNS)}}

EXP_YEARS_CEILING == 20

\* C22: for a row without required_exp_years whose description is read, the
\* field stays "__NA__" when the text has no experience-context keyword;
\* when it has one and no level code is accepted, the field is the minimum of
\* the accepted numeric candidates, or stays "__NA__" when there is none or
\* the minimum is over 20; it is always "__NA__" or an integer of 0..20; and
\* "Senior Data Engineer, minimum 6 years of experience" gives "6".
C22_ExperienceYears ==
    x_runs = 1 =>
        \A i \in 1..Len(x_before) :
            (x_before[i]["job_description"] # NA_VALUE
                /\ x_before[i]["required_exp_years"] = NA_VALUE) =>
                /\ ~contains_any(DescText(i), EXP_CONTEXT_KEYWORDS) =>
                      x_after[i]["required_exp_years"] = NA_VALUE
                /\ (contains_any(DescText(i), EXP_CONTEXT_KEYWORDS) /\ ~LevelAccepted(i)) =>
                      x_after[i]["required_exp_years"] =
                          IF AcceptedCandidates(i) = {} THEN NA_VALUE
                          ELSE IF Min(AcceptedCandidates(i)) > EXP_YEARS_CEILING THEN NA_VALUE
                          ELSE int_to_str(Min(AcceptedCandidates(i)))
                /\ x_after[i]["required_exp_years"]
                       \in {NA_VALUE} \cup {int_to_str(y) : y \in 0..EXP_YEARS_CEILING}
                /\ x_before[i]["job_description"]
                       = "Senior Data Engineer, minimum 6 years of experience" =>
                      x_after[i]["required_exp_years"] = "6"

\* an extraction wrote "6" for the example, left a row alone whose least
\* candidate is 25 years, and one whose only candidate is company history
C22_Witness ==
    /\ x_runs = 1
    /\ \E i \in 1..Len(x_before) :
          /\ x_before[i]["required_exp_years"] = NA_VALUE
          /\ \/ /\ x_before[i]["job_description"]
                       = "Senior Data Engineer, minimum 6 years of experience"
                /\ x_after[i]["required_exp_years"] = "6"
             \/ /\ AcceptedCandidates(i) = {25, 30}
                /\ x_after[i]["required_exp_years"] = NA_VALUE

\* ------------------------------------------------------------------------
\* Canonicalizer: properties
\* ------------------------------------------------------------------------
\* the fields the step canonicalizes
CANONICALIZED_FIELDS ==
    {"city", "skill_name", "required_exp_years", "remote_option", "company_name",
     "employment_type", "currency", "posted_date"}

\* a run over the files an earlier run saved has ended
Recanonicalized == n_pc = "idle" /\ n_fed >= 1 /\ n_runs > n_fed

\* C3: canonicalization is idempotent: when the files a run saved are
\* canonicalized again, every canonicalized field of every row of the file
\* saved the second time is the text it was in the file saved the first time.
C3_CanonicalizeIdempotent ==
    Recanonicalized =>
        \A k \in 1..Len(n_dir) :
            \A i \in 1..Len(n_dir[k].rows) :
                \A f \in CANONICALIZED_FIELDS :
                    n_out[output_name(n_dir[k].name)][i][f] = n_dir[k].rows[i][f]

\* the run over the files that INPUT_DIR holds has ended
Canonicalized == n_pc = "idle" /\ n_runs > n_fed

\* the file at position k of INPUT_DIR is the one the run saved under its
\* output name: the run took it, it has the city column, and no file taken
\* after it has the same output name
SavedFrom(k) ==
    /\ ~starts_at(n_dir[k].name, 0, "normalized_")
    /\ "city" \in columns(n_dir[k].rows)
    /\ \A j \in (k + 1)..Len(n_dir) :
          \/ starts_at(n_dir[j].name, 0, "normalized_")
          \/ "city" \notin columns(n_dir[j].rows)
          \/ output_name(n_dir[j].name) # output_name(n_dir[k].name)

\* the two sentinels that are final
TERMINAL_SENTINELS == {"__INVALID__", "__UNMATCHED__"}

\* the fields of C11 that the Canonicalizer handles
SENTINEL_FIELDS ==
    {"city", "currency", "employment_type", "remote_option", "skill_name", "posted_date",
     "required_exp_years"}

\* C11: a field that holds "__INVALID__" or "__UNMATCHED__" when the
\* Canonicalizer reads a file holds the same sentinel in the file it saves,
\* and the sentinel is not logged as a new unmatched value: no row of the
\* unmatched-city report and no entry of the unmatched-skill counter carries
\* a sentinel as its raw value.
C11_SentinelsTerminal ==
    Canonicalized =>
        /\ \A k \in 1..Len(n_dir) :
              SavedFrom(k) =>
                  \A i \in 1..Len(n_dir[k].rows) : \A f \in SENTINEL_FIELDS :
                      n_dir[k].rows[i][f] \in TERMINAL_SENTINELS =>
                          n_out[output_name(n_dir[k].name)][i][f] = n_dir[k].rows[i][f]
        /\ \A n \in 1..Len(n_city_report) :
              n_city_report[n].city_raw \notin TERMINAL_SENTINELS
        /\ \A n \in 1..Len(n_counter) :
              n_counter[n].skill_raw_example \notin TERMINAL_SENTINELS

\* a cell as read from the file holds a value: not null, not empty, not "__NA__"
PresentValue(v) == ~isna(v) /\ strip(v) \notin {"", "__NA__"}

\* the reference lookup of the field, or the encodings of remote_option,
\* resolve the value
ResolvesEnum(f, v) ==
    IF f = "currency"
    THEN collapse_blanks(replace_char(lower(strip(v)), "_", " ")) \in DOMAIN CURRENCY_LOOKUP
    ELSE IF f = "employment_type"
    THEN normalize_text(strip(v)) \in DOMAIN EMPLOYMENT_TYPE_LOOKUP
    ELSE strip(v) \in {"0", "0.0", "50", "50.0", "100", "100.0"}
            \/ upper(strip(v)) \in {"TRUE", "FALSE"}

\* C12: in the file the Canonicalizer saves, a currency, employment_type or
\* remote_option that held a value which nothing resolves is "__INVALID__",
\* one that was "__NA__" is "__NA__", and every row of the file read is there.
C12_UnresolvedEnumIsInvalid ==
    Canonicalized =>
        \A k \in 1..Len(n_dir) :
            SavedFrom(k) =>
                /\ Len(n_out[output_name(n_dir[k].name)]) = Len(n_dir[k].rows)
                /\ \A i \in 1..Len(n_dir[k].rows) :
                      \A f \in {"currency", "employment_type", "remote_option"} :
                          /\ n_dir[k].rows[i][f] = "__NA__"
                                => n_out[output_name(n_dir[k].name)][i][f] = "__NA__"
                          /\ PresentValue(read_csv(n_dir[k].rows)[i][f])
                                /\ ~ResolvesEnum(f, read_csv(n_dir[k].rows)[i][f])
                                => n_out[output_name(n_dir[k].name)][i][f] = "__INVALID__"

\* the files of INPUT_DIR that the run took and that have the city column
CityFiles == {k \in 1..Len(n_dir) : ~starts_at(n_dir[k].name, 0, "normalized_")
                                      /\ "city" \in columns(n_dir[k].rows)}

\* the city of row i of file k as the run read it, "__NA__" when the cell is null
RawCity(k, i) == fillna(read_csv(n_dir[k].rows)[i]["city"], "__NA__")

\* the two levels: the alias table has the normalized raw city, and the
\* official-cities table has the normalized canonical city of that alias
ResolvesCity(raw) ==
    /\ normalize_text(raw) \in DOMAIN CITY_ALIAS_LOOKUP_s23
    /\ normalize_text(CITY_ALIAS_LOOKUP_s23[normalize_text(raw)]) \in DOMAIN CITY_NAME_LOOKUP

\* the official name the two levels lead to
OfficialCity(raw) ==
    CITY_NAME_LOOKUP[normalize_text(CITY_ALIAS_LOOKUP_s23[normalize_text(raw)])]

\* row i of file k is unmatched and its raw city is not its country
AuditedCity(k, i) ==
    /\ normalize_text(RawCity(k, i)) # "__NA__"
    /\ ~ResolvesCity(RawCity(k, i))
    /\ normalize_text(RawCity(k, i)) # normalize_text(read_csv(n_dir[k].rows)[i]["country"])

\* the (file, row) pairs of the run that are unmatched and not the country
AuditedRows ==
    UNION {{<<k, i>> : i \in {j \in 1..Len(n_dir[k].rows) : AuditedCity(k, j)}} :
              k \in CityFiles}

\* C13: in the saved file a city that is "__NA__" stays "__NA__", a city
\* that resolves at both levels is the official name, every other city is
\* "__UNMATCHED__"; and the unmatched-city report of the run has one row, with
\* the name of the file and the raw city, for exactly the unmatched records
\* whose raw city is not their country.
C13_CityTwoLevel ==
    Canonicalized =>
        /\ \A k \in 1..Len(n_dir) :
              SavedFrom(k) =>
                  \A i \in 1..Len(n_dir[k].rows) :
                      n_out[output_name(n_dir[k].name)][i]["city"] =
                          IF normalize_text(RawCity(k, i)) = "__NA__" THEN "__NA__"
                          ELSE IF ResolvesCity(RawCity(k, i)) THEN OfficialCity(RawCity(k, i))
                          ELSE "__UNMATCHED__"
        /\ {n_city_report[n] : n \in 1..Len(n_city_report)} =
               {[__source_name |-> n_dir[p[1]].name, __source_id |-> int_to_str(p[2] - 1),
                 city_raw |-> RawCity(p[1], p[2])] : p \in AuditedRows}
        /\ Len(n_city_report) = Cardinality(AuditedRows)

\* a run saved a file in which one city became an official name that is not
\* its raw text, one failed at the second level and is in the report, and
\* one is unmatched, is the name of the country and is not in the report
C13_Witness ==
    /\ Canonicalized
    /\ \E k \in 1..Len(n_dir) :
          /\ SavedFrom(k)
          /\ \E i \in 1..Len(n_dir[k].rows) :
                /\ ResolvesCity(RawCity(k, i))
                /\ n_out[output_name(n_dir[k].name)][i]["city"] # RawCity(k, i)
                /\ n_out[output_name(n_dir[k].name)][i]["city"] = "Ho Chi Minh City"
          /\ \E i \in 1..Len(n_dir[k].rows) :
                /\ normalize_text(RawCity(k, i)) \in DOMAIN CITY_ALIAS_LOOKUP_s23
                /\ n_out[output_name(n_dir[k].name)][i]["city"] = "__UNMATCHED__"
                /\ \E n \in 1..Len(n_city_report) :
                      /\ n_city_report[n].__source_name = n_dir[k].name
                      /\ n_city_report[n].city_raw = RawCity(k, i)
          /\ \E i \in 1..Len(n_dir[k].rows) :
                /\ n_out[output_name(n_dir[k].name)][i]["city"] = "__UNMATCHED__"
                /\ ~AuditedCity(k, i)
                /\ \A n \in 1..Len(n_city_report) :
                      n_city_report[n].city_raw # RawCity(k, i)

\* the skill_name of row i of file k as normalize_skill_name_with_mapping gets it
ShapedSkill(k, i) == clean_skill_field_shape(read_csv(n_dir[k].rows)[i]["skill_name"])

\* the tokens of a skill_name that holds a value
SkillTokens(cell) ==
    IF isna(cell) \/ strip(cell) \in {"", "__NA__"} THEN <<>> ELSE skill_tokens(strip(cell))

\* the canonical skills the tokens resolve to, alias first and strong term
\* otherwise, each once, in the order of the first token that resolves to it
ResolvedSkills(tokens) ==
    unique(SelectSeq([n \in 1..Len(tokens) |-> resolve_skill(normalize_text(tokens[n]))],
                     truthy), <<>>)

\* C14: the skill_name of the saved file is the "|"-joined list of the
\* canonical skills its tokens resolve to (alias-exact first, strong term
\* otherwise), each once and in the order of first occurrence, without the
\* tokens that resolve to nothing, or "__NA__" when no token resolves.
C14_SkillCanonical ==
    Canonicalized =>
        \A k \in 1..Len(n_dir) :
            SavedFrom(k) =>
                \A i \in 1..Len(n_dir[k].rows) :
                    n_out[output_name(n_dir[k].name)][i]["skill_name"] =
                        IF ResolvedSkills(SkillTokens(ShapedSkill(k, i))) = <<>> THEN "__NA__"
                        ELSE join("|", ResolvedSkills(SkillTokens(ShapedSkill(k, i))))

\* the files run() takes from INPUT_DIR, by their place in the directory
TakenFiles == {k \in 1..Len(n_dir) : ~starts_at(n_dir[k].name, 0, "normalized_")}

\* the tokens of the skill_name of row i of file k that resolve to no skill
DroppedTokens(k, i) ==
    IF "skill_name" \in columns(n_dir[k].rows)
    THEN SelectSeq(SkillTokens(ShapedSkill(k, i)),
                   LAMBDA t : ~truthy(resolve_skill(normalize_text(t))))
    ELSE <<>>

\* the rows (file, row) of the files of the run
TakenRows == UNION {{<<k, i>> : i \in 1..Len(n_dir[k].rows)} : k \in TakenFiles}

\* the occurrences (file, row, place) of dropped tokens whose normalized form is norm
DroppedOccurrences(norm) ==
    UNION {{<<p[1], p[2], n>> : n \in {m \in 1..Len(DroppedTokens(p[1], p[2])) :
                                        normalize_text(DroppedTokens(p[1], p[2])[m]) = norm}} :
              p \in TakenRows}

\* the normalized forms of the dropped tokens of the run
DroppedNorms ==
    UNION {{normalize_text(DroppedTokens(p[1], p[2])[n]) :
               n \in 1..Len(DroppedTokens(p[1], p[2]))} : p \in TakenRows}

\* C15: at the end of a run the unmatched-skill counter holds, for the
\* normalized form of every token that was dropped as unresolved, whatever
\* its length, the number of its occurrences in all files of the run and
\* one of its raw texts as example, and it holds nothing else.
C15_DroppedTokensCounted ==
    Canonicalized =>
        /\ \A norm \in DroppedNorms :
              \E n \in 1..Len(n_counter) :
                 /\ n_counter[n].skill_norm = norm
                 /\ n_counter[n].count = Cardinality(DroppedOccurrences(norm))
                 /\ \E o \in DroppedOccurrences(norm) :
                       n_counter[n].skill_raw_example = DroppedTokens(o[1], o[2])[o[3]]
        /\ \A n \in 1..Len(n_counter) : n_counter[n].skill_norm \in DroppedNorms

\* C16: when a run of the stage is over, each of its unmatched reports holds
\* the rows of that run and no other: the unmatched-skill report is the
\* ranking of the counter of the run, empty when the run dropped no token,
\* and every row of the unmatched-city report is a row of a file of the run.
C16_ReportsReset ==
    Canonicalized =>
        /\ n_skill_report = IF n_counter = <<>> THEN <<>> ELSE unmatched_skill_rows(n_counter)
        /\ \A n \in 1..Len(n_city_report) :
              \E p \in AuditedRows :
                 /\ n_city_report[n].__source_name = n_dir[p[1]].name
                 /\ n_city_report[n].city_raw = RawCity(p[1], p[2])

\* ------------------------------------------------------------------------
\* Step 2.5: vocabulary of the properties
\* ------------------------------------------------------------------------
\* a run of step 2.5 is over and its files are the ones in INPUT_DIR
Enriched == k_pc = "idle" /\ k_runs > k_fed

\* the skills listed in the skill_name of a file, as written there
ListedSkills(cell) ==
    IF cell \in STR_NA_VALUES \/ cell = "__NA__" THEN {}
    ELSE {strip(split(cell, "|")[n]) : n \in 1..Len(split(cell, "|"))} \ {""}

\* the registry categories of the listed skills
RegistryCategories(cell) ==
    {SKILL_CATEGORY_LOOKUP[sk] : sk \in ListedSkills(cell) \cap DOMAIN SKILL_CATEGORY_LOOKUP}

\* C17: in every file a run of step 2.5 saved, the skill_category of every
\* record is the sorted, " | "-joined set of the registry categories of the
\* skills its skill_name lists, or "__NA__" when that set is empty, whatever
\* the skill_category of the record was in the file read.
C17_CategoryRederived ==
    Enriched =>
        \A k \in 1..Len(k_dir) :
            \A i \in 1..Len(k_dir[k].rows) :
                k_out[k_dir[k].name][i]["skill_category"] =
                    IF RegistryCategories(k_dir[k].rows[i]["skill_name"]) = {} THEN "__NA__"
                    ELSE join(" | ", sorted(RegistryCategories(k_dir[k].rows[i]["skill_name"])))

\* a run saved a record whose skill_category listed a category that is not
\* of its skills, and one whose skill_category had a category although none
\* of its skills has one
C17_Witness ==
    /\ Enriched
    /\ \E k \in 1..Len(k_dir) :
          \E i \in 1..Len(k_dir[k].rows) :
             \/ /\ k_dir[k].rows[i]["skill_category"] = "Tools|Database"
                /\ k_dir[k].rows[i]["skill_name"] = "R | SQL |"
                /\ k_out[k_dir[k].name][i]["skill_category"] = "Database | Programming"
             \/ /\ k_dir[k].rows[i]["skill_category"] = "Database"
                /\ k_dir[k].rows[i]["skill_name"] = "Tableau"
                /\ k_out[k_dir[k].name][i]["skill_category"] = "__NA__"

\* the categories a skill_category cell of a file lists
PriorCategories(cell) ==
    IF cell = "__NA__" THEN {}
    ELSE {strip(split(cell, "|")[n]) : n \in 1..Len(split(cell, "|"))} \ {""}

\* the rows of file k for which P holds of the prior and the derived categories
AuditRows(k, P(_, _)) ==
    {i \in 1..Len(k_dir[k].rows) :
        P(PriorCategories(k_dir[k].rows[i]["skill_category"]),
          RegistryCategories(k_dir[k].rows[i]["skill_name"]))}

\* the figures of the run are those of the files of INPUT_DIR, in their order
AuditPrinted ==
    /\ Len(k_printed) = Len(k_dir)
    /\ \A k \in 1..Len(k_dir) : k_printed[k].file = k_dir[k].name

\* C23: in the figures enrich_file prints for a file, "right" is the number
\* of records whose prior category set is not empty and a subset of the
\* registry-derived set, "wrong" the number of the other records with a
\* prior category, and "enriched" the number of records whose category set
\* the recomputation changed, a prior category replaced by "__NA__" included.
C23_CategoryAudit ==
    Enriched =>
        /\ AuditPrinted
        /\ \A k \in 1..Len(k_dir) :
              /\ k_printed[k].category_right =
                     Cardinality(AuditRows(k, LAMBDA prior, derived :
                                                 prior # {} /\ prior \subseteq derived))
              /\ k_printed[k].category_wrong =
                     Cardinality(AuditRows(k, LAMBDA prior, derived :
                                                 prior # {} /\ ~(prior \subseteq derived)))
              /\ k_printed[k].category_enriched =
                     Cardinality(AuditRows(k, LAMBDA prior, derived : prior # derived))

\* C23, amended: "enriched" is the number of records whose registry-derived
\* set is not empty and differs from the prior set; a record whose prior
\* category is replaced by "__NA__" is counted "unmatched" and not "enriched".
C23_CategoryAuditUnmatched ==
    Enriched =>
        /\ AuditPrinted
        /\ \A k \in 1..Len(k_dir) :
              /\ k_printed[k].category_right =
                     Cardinality(AuditRows(k, LAMBDA prior, derived :
                                                 prior # {} /\ prior \subseteq derived))
              /\ k_printed[k].category_wrong =
                     Cardinality(AuditRows(k, LAMBDA prior, derived :
                                                 prior # {} /\ ~(prior \subseteq derived)))
              /\ k_printed[k].category_right + k_printed[k].category_wrong =
                     Cardinality(AuditRows(k, LAMBDA prior, derived : prior # {}))
              /\ k_printed[k].category_enriched =
                     Cardinality(AuditRows(k, LAMBDA prior, derived :
                                                 derived # {} /\ prior # derived))
              /\ k_printed[k].category_unmatched =
                     Cardinality(AuditRows(k, LAMBDA prior, derived :
                                                 derived = {} /\ prior # {}))

\* a run printed, for a file with two records without prior category and one
\* whose prior category no skill justifies, 2 enriched, 1 wrong, 1 unmatched;
\* and for a file a record whose prior category is a part of the derived set
C23_Witness ==
    /\ Enriched
    /\ \E k \in 1..Len(k_dir) :
          \/ /\ k_printed[k].file = "jobs_a.csv"
             /\ k_printed[k].category_enriched = 2
             /\ k_printed[k].category_wrong = 1
             /\ k_printed[k].category_unmatched = 1
          \/ /\ k_printed[k].category_right = 1
             /\ k_printed[k].category_enriched = 1
             /\ k_dir[k].rows[1]["skill_category"] = "Database"

\* the record i of file k as enrich_file reads it
ReadRecord(k, i) == load_for_enrich(k_dir[k].rows)[i]

\* the skills of a skill_name cell, in their order
SkillPieces(cell) == [n \in 1..Len(split(cell, "|")) |-> strip(split(cell, "|")[n])]

\* the levels the rules of a source match on a cell
LevelsMatched(cell, source) ==
    {match_level(normalize_text_s25(cell), source)[n] :
        n \in 1..Len(match_level(normalize_text_s25(cell), source))}

\* the levels the description rules match in the window of a skill
LocalLevels(skill, desc) ==
    {match_level(extract_context(normalize_text_s25(desc), normalize_text_s25(skill),
                                 CONTEXT_WINDOW), "desc")[n] :
        n \in 1..Len(match_level(extract_context(normalize_text_s25(desc),
                                                 normalize_text_s25(skill),
                                                 CONTEXT_WINDOW), "desc"))}

\* the skill_level_required of record i of file k must be this, by the
\* precedence of the three rules
LevelByPrecedence(k, i) ==
    IF Cardinality(LevelsMatched(ReadRecord(k, i)["role_name"], "role")) = 1
    THEN with_level(SkillPieces(ReadRecord(k, i)["skill_name"]),
                    CHOOSE l \in LevelsMatched(ReadRecord(k, i)["role_name"], "role") : TRUE)
    ELSE IF Cardinality(LevelsMatched(ReadRecord(k, i)["job_description"], "desc")) = 1
    THEN with_level(SkillPieces(ReadRecord(k, i)["skill_name"]),
                    CHOOSE l \in LevelsMatched(ReadRecord(k, i)["job_description"], "desc") : TRUE)
    ELSE IF \A n \in 1..Len(SkillPieces(ReadRecord(k, i)["skill_name"])) :
                LocalLevels(SkillPieces(ReadRecord(k, i)["skill_name"])[n],
                            ReadRecord(k, i)["job_description"]) = {}
    THEN "__NA__"
    ELSE join(" | ", context_levels(SkillPieces(ReadRecord(k, i)["skill_name"]),
                                    normalize_text_s25(ReadRecord(k, i)["job_description"])))

\* the file whose enrich_file ended the run
FailedFile == k_dir[Len(k_dir) - Len(k_todo)]

\* C24: in every file a run of step 2.5 saved, the skill_level_required of a
\* record with a skill_name is the one level of the role rules on every
\* skill when they match exactly one level, else the one level of the
\* description rules on every skill when they match exactly one, else what
\* the window of each skill gives, and "__NA__" when no rule gives a level;
\* a run ends with an exception only on a file with a blank skill_category
\* or without the columns role_name and job_description, never on levels
\* that conflict.
C24_LevelPrecedence ==
    /\ Enriched =>
          \A k \in 1..Len(k_dir) :
              \A i \in 1..Len(k_dir[k].rows) :
                  ReadRecord(k, i)["skill_name"] # "__NA__" =>
                      k_out[k_dir[k].name][i]["skill_level_required"] = LevelByPrecedence(k, i)
    /\ k_pc = "failed" =>
          \/ \E i \in 1..Len(FailedFile.rows) :
                FailedFile.rows[i]["skill_category"] \in STR_NA_VALUES
          \/ ~({"role_name", "job_description"} \subseteq DOMAIN FailedFile.rows[1])

\* a run saved a record whose role gives one level and whose description
\* one other level, one whose role gives two levels and whose description one, and
\* one whose role and description both give two levels
C24_Witness ==
    /\ Enriched
    /\ \E k \in 1..Len(k_dir) :
          \E i \in 1..Len(k_dir[k].rows) :
             /\ k_dir[k].rows[i]["skill_name"] = "SQL|R"
             /\ \/ /\ k_dir[k].rows[i]["role_name"] = "Senior  Data Engineer"
                   /\ k_dir[k].rows[i]["job_description"] = "Familiar with SQL; R is a plus"
                   /\ k_out[k_dir[k].name][i]["skill_level_required"]
                          = "SQL (Advanced) | R (Advanced)"
                \/ /\ k_dir[k].rows[i]["role_name"] = "Junior Lead"
                   /\ k_dir[k].rows[i]["job_description"] = "advanced analytics"
                   /\ k_out[k_dir[k].name][i]["skill_level_required"]
                          = "SQL (Advanced) | R (Advanced)"
                \/ /\ k_dir[k].rows[i]["role_name"] = "Principal Intern"
                   /\ k_dir[k].rows[i]["job_description"] = "Expert SQL and basic R"
                   /\ k_out[k_dir[k].name][i]["skill_level_required"]
                          = "SQL (Basic) | R (Basic)"

\* ------------------------------------------------------------------------
\* Runner of step 2: properties
\* ------------------------------------------------------------------------
\* the success banner has been printed
BannerPrinted ==
    \E n \in 1..Len(r_printed) : r_printed[n].text = "STEP 2 PIPELINE COMPLETED SUCCESSFULLY"

\* the range typed is one of steps 1..10 with start <= end
RangeAccepted == r_start \in 1..10 /\ r_end \in 1..10 /\ r_start <= r_end

CheckedExtracted ==
    {f \in g_checked.extracted : is_file(f) /\ lower(path_suffix(f)) \in VALID_EXTS}

\* the extracted files the last check saw without their mapped version
CheckedUnmapped == {f \in CheckedExtracted : mapped_name(f) \notin g_checked.mapped}

\* C26: a mapping check exits with status 0 only if every extracted file it
\* saw has its mapped version in MAPPED_DIR, and with status 1 whenever an
\* extracted file has none, whatever else MAPPED_DIR holds.
C26_GuardOneToOne ==
    g_exit # -1 =>
        /\ g_exit \in {0, 1}
        /\ g_exit = 0 => CheckedUnmapped = {}
        /\ CheckedUnmapped # {} => g_exit = 1

\* ------------------------------------------------------------------------
\* Step 3.2: properties
\* ------------------------------------------------------------------------
\* main() has ended and every table was truncated and loaded again
AllReloaded == l_pc = "done" /\ l_choices = [n \in 1..Len(LOAD_ORDER) |-> "y"]

\* the entity a key of a file refers to: the cleaned name of the row of the
\* file with this id, "no such row" when the file has none
EntityOfKey(file, key) ==
    IF \E n \in 1..Len(l_csv[file]) : l_csv[file][n].id = key
    THEN clean_value(l_csv[file][CHOOSE n \in 1..Len(l_csv[file]) :
                                    l_csv[file][n].id = key].name)
    ELSE "no such row"

\* the entity a key of the store refers to: the name of the row of the table
\* with this id, "not in the store" when the table has none
EntityInStore(table, key) ==
    IF \E n \in 1..Len(l_db[table]) : l_db[table][n].id = key
    THEN l_db[table][CHOOSE n \in 1..Len(l_db[table]) : l_db[table][n].id = key].name
    ELSE "not in the store"

\* the row of job_postings.csv a posting of the store was read from
FileRowOfPosting(p) ==
    l_csv["job_postings.csv"][CHOOSE n \in 1..Len(l_csv["job_postings.csv"]) :
                                  clean_value(l_csv["job_postings.csv"][n].name) = p.name]

\* a row of a junction table of the store is a row of its file, every key
\* being the store's id of the entity the key of the file refers to
JunctionRowRemapped(x, file, parent_table, parent_file) ==
    \E n \in 1..Len(l_csv[file]) :
        /\ EntityInStore("job_postings", x.job_id)
              = EntityOfKey("job_postings.csv", l_csv[file][n].job_id)
        /\ IF parent_table = "" THEN x.ref = l_csv[file][n].ref
           ELSE EntityInStore(parent_table, x.ref) = EntityOfKey(parent_file, l_csv[file][n].ref)

\* C27: after a load that truncated and reloaded every table, company_id and
\* location_id of every posting of the store are the store's ids of the
\* company and the location its row of job_postings.csv refers to, and
\* job_id, role_id and skill_id of every row of the junction tables are the
\* store's ids of the posting, the role and the skill the row of the file
\* refers to, also when rows were skipped or a batch insert failed; no row
\* of the store refers to an entity that was not inserted.
C27_KeysRemapped ==
    AllReloaded =>
        /\ \A k \in 1..Len(l_db["job_postings"]) :
              /\ EntityInStore("companies", l_db["job_postings"][k].company_id)
                    = EntityOfKey("companies.csv",
                                  FileRowOfPosting(l_db["job_postings"][k]).company_id)
              /\ EntityInStore("locations", l_db["job_postings"][k].location_id)
                    = EntityOfKey("locations.csv",
                                  FileRowOfPosting(l_db["job_postings"][k]).location_id)
        /\ \A k \in 1..Len(l_db["job_roles"]) :
              JunctionRowRemapped(l_db["job_roles"][k], "job_roles.csv", "role_names",
                                  "role_names.csv")
        /\ \A k \in 1..Len(l_db["job_skills"]) :
              JunctionRowRemapped(l_db["job_skills"][k], "job_skills.csv", "skills",
                                  "skills.csv")
        /\ \A k \in 1..Len(l_db["job_levels"]) :
              JunctionRowRemapped(l_db["job_levels"][k], "job_levels.csv", "", "")

\* ------------------------------------------------------------------------
\* Entity Projector: vocabulary of the properties
\* ------------------------------------------------------------------------
SENTINELS == {"__NA__", "__INVALID__", "__UNMATCHED__"}

\* a cell that is neither null, nor empty, nor a sentinel
Meaningful(v) == v # NaN /\ strip(v) # "" /\ strip(v) \notin SENTINELS

CompanyPresent(row) == Meaningful(row.company_name)

OtherMeaningful(row) == \E c \in ERD_COLUMNS \ {"company_name"} : Meaningful(row[c])

Range(s) == {s[i] : i \in 1..Len(s)}

\* the row of df behind the j-th job posting
RowOfJob(j) == df[emitted[j]]

\* the '|'-separated tokens of a multi-valued cell, stripped
Tokens(v) ==
    IF v = NaN THEN <<>>
    ELSE LET parts == split(v, "|") IN [i \in 1..Len(parts) |-> strip(parts[i])]

RECURSIVE FirstOccurrences(_, _)
FirstOccurrences(seq, seen) ==
    IF seq = <<>> THEN <<>>
    ELSE IF Head(seq) \in seen
         THEN FirstOccurrences(Tail(seq), seen)
         ELSE <<Head(seq)>> \o FirstOccurrences(Tail(seq), seen \cup {Head(seq)})

RECURSIVE IdsInOrder(_, _)
IdsInOrder(seq, d) ==
    IF seq = <<>> THEN d
    ELSE IdsInOrder(Tail(seq),
                    IF Head(seq) \in DOMAIN d THEN d
                    ELSE dict_set(d, Head(seq), Cardinality(DOMAIN d) + 1))

\* key -> rank of the key's first occurrence in seq
IdsByFirstOccurrence(seq) == IdsInOrder(seq, EmptyDict)

CompanyKeys == [j \in 1..Len(emitted) |-> RowOfJob(j).company_name]

LocationKeys ==
    [j \in 1..Len(emitted) |-> <<RowOfJob(j).city, RowOfJob(j).country, RowOfJob(j).country_iso>>]

SkillKeys ==
    Flatten([j \in 1..Len(emitted) |->
        SelectSeq(Tokens(RowOfJob(j).skill_name), LAMBDA t : t \in DOMAIN skill_map)])

RoleKeys ==
    Flatten([j \in 1..Len(emitted) |->
        SelectSeq(Tokens(RowOfJob(j).role_name), LAMBDA t : t \in DOMAIN role_map)])

\* 1, 2, ..., n
Iota(n) == [i \in 1..n |-> i]

IsPrefix(s, t) == Len(s) <= Len(t) /\ SubSeq(t, 1, Len(s)) = s

ExtendsDict(m, n) == DOMAIN m \subseteq DOMAIN n /\ \A k \in DOMAIN m : n[k] = m[k]

\* ------------------------------------------------------------------------
\* C4: a job posting is emitted for a row only if company_name is present and
\* some other column holds a meaningful value; a row whose only meaningful
\* column is company_name is dropped and counted under dropped_all_na.
\* ------------------------------------------------------------------------
C4_EmitNeedsOtherMeaningfulValue ==
    /\ \A j \in 1..Len(emitted) :
          CompanyPresent(RowOfJob(j)) /\ OtherMeaningful(RowOfJob(j))
    /\ dropped_job_all_na =
          Cardinality({i \in 1..Len(df) : CompanyPresent(df[i]) /\ ~OtherMeaningful(df[i])})

C6_ReferentialIntegrity ==
    LET company_ids == {companies[i].company_id : i \in 1..Len(companies)}
        location_ids == {locations[i].location_id : i \in 1..Len(locations)}
        skill_ids == {skills[i].skill_id : i \in 1..Len(skills)}
        role_ids == {roles[i].role_id : i \in 1..Len(roles)}
        job_ids == {job_postings[i].job_id : i \in 1..Len(job_postings)}
    IN  /\ \A i \in 1..Len(job_postings) :
              /\ job_postings[i].company_id \in company_ids
              /\ job_postings[i].location_id \in location_ids
        /\ \A i \in 1..Len(job_skills) :
              /\ job_skills[i].job_id \in job_ids
              /\ job_skills[i].skill_id \in skill_ids
        /\ \A i \in 1..Len(job_roles) :
              /\ job_roles[i].job_id \in job_ids
              /\ job_roles[i].role_id \in role_ids
        /\ \A i \in 1..Len(job_levels) : job_levels[i].job_id \in job_ids

\* a dropped row lies between two emitted ones, and every junction table has rows
C6_Witness ==
    /\ Len(df) >= 3
    /\ emitted = <<1, 3>>
    /\ \E i \in 1..Len(job_skills) : job_skills[i].job_id = 2
    /\ \E i \in 1..Len(job_roles) : job_roles[i].job_id = 2
    /\ \E i \in 1..Len(job_levels) : job_levels[i].job_id = 2

\* ------------------------------------------------------------------------
\* C7: for an emitted job, job_skills holds a row for a token of skill_name
\* only if the token is a key of SKILL_TO_CATEGORY, and job_roles a row for a
\* token of role_name only if it is in ROLE_ENUM; other tokens make neither an
\* entity row nor a junction row, and the job posting is emitted all the same.
\* ------------------------------------------------------------------------
C7_ClosedWorldJunctions ==
    /\ \A i \in 1..Len(skills) : skills[i].skill_name \in DOMAIN SKILL_TO_CATEGORY
    /\ \A i \in 1..Len(roles) : roles[i].role_name \in ROLE_ENUM
    /\ \A j \in 1..Len(emitted) :
          /\ job_postings[j].job_id = j
          /\ { skills[y].skill_name :
                 y \in {z \in 1..Len(skills) :
                          \E x \in 1..Len(job_skills) :
                             /\ job_skills[x].job_id = j
                             /\ job_skills[x].skill_id = skills[z].skill_id} }
               = Range(Tokens(RowOfJob(j).skill_name)) \cap DOMAIN SKILL_TO_CATEGORY
          /\ { roles[y].role_name :
                 y \in {z \in 1..Len(roles) :
                          \E x \in 1..Len(job_roles) :
                             /\ job_roles[x].job_id = j
                             /\ job_roles[x].role_id = roles[z].role_id} }
               = Range(Tokens(RowOfJob(j).role_name)) \cap ROLE_ENUM
    /\ \A i \in 1..Len(df) :
          CompanyPresent(df[i]) /\ OtherMeaningful(df[i]) => i \in Range(emitted)

\* a job was emitted from a row that names an unknown skill and an unknown role
C7_Witness ==
    \E j \in 1..Len(emitted) :
       /\ job_postings[j].job_id = j
       /\ \/ "fakeskillxyz" \in Range(Tokens(RowOfJob(j).skill_name))
          \/ "Chef" \in Range(Tokens(RowOfJob(j).role_name))
       /\ \E x \in 1..Len(job_skills) : job_skills[x].job_id = j
       /\ \E k \in 1..Len(emitted) : "Chef" \in Range(Tokens(RowOfJob(k).role_name))
       /\ \E k \in 1..Len(emitted) : "fakeskillxyz" \in Range(Tokens(RowOfJob(k).skill_name))

\* ------------------------------------------------------------------------
\* C8: processing one more row only appends to the output tables and only
\* adds keys to the id maps: the output for a prefix of the stream is the
\* prefix of the output for the whole stream, and no assigned id changes.
\* ------------------------------------------------------------------------
C8_PrefixStable ==
    [][ /\ IsPrefix(df, df')
        /\ IsPrefix(job_postings, job_postings')
        /\ IsPrefix(companies, companies')
        /\ IsPrefix(locations, locations')
        /\ IsPrefix(skills, skills')
        /\ IsPrefix(roles, roles')
        /\ IsPrefix(job_skills, job_skills')
        /\ IsPrefix(job_roles, job_roles')
        /\ IsPrefix(job_levels, job_levels')
        /\ ExtendsDict(company_map, company_map')
        /\ ExtendsDict(location_map, location_map')
        /\ ExtendsDict(skill_map, skill_map')
        /\ ExtendsDict(role_map, role_map') ]_vars

\* a stream whose later rows both reuse and add entities
C8_Witness ==
    /\ Len(emitted) >= 2
    /\ Len(companies) >= 2
    /\ Len(locations) >= 2
    /\ LocationKeys[1] = LocationKeys[Len(emitted)]
    /\ Len(job_skills) >= 2

\* ------------------------------------------------------------------------
\* C9: a dropped row increments exactly one of the two drop counters, the
\* no-company test coming first (a row whose company_name and every other
\* column are NOT_AVAILABLE counts as dropped_no_company), an emitted row
\* increments none, and the total printed at the end is the number of rows
\* that got no job posting.
\* ------------------------------------------------------------------------
C9_DropAccounting ==
    [][ /\ df' # df =>
            LET row == df'[Len(df')]
                kept == Len(job_postings') = Len(job_postings) + 1
                dropped == job_postings' = job_postings
            IN  /\ kept \/ dropped
                /\ kept => /\ dropped_job_no_company' = dropped_job_no_company
                           /\ dropped_job_all_na' = dropped_job_all_na
                /\ dropped =>
                      \/ /\ dropped_job_no_company' = dropped_job_no_company + 1
                         /\ dropped_job_all_na' = dropped_job_all_na
                      \/ /\ dropped_job_no_company' = dropped_job_no_company
                         /\ dropped_job_all_na' = dropped_job_all_na + 1
                /\ ~CompanyPresent(row) =>
                      /\ dropped
                      /\ dropped_job_no_company' = dropped_job_no_company + 1
        /\ pc' = "done" /\ pc = "loop" =>
              /\ summary'.total_dropped
                    = summary'.dropped_no_company + summary'.dropped_all_na
              /\ summary'.total_dropped = Len(df) - Len(job_postings) ]_vars

\* the run ended after a row with every column NOT_AVAILABLE was dropped
C9_Witness ==
    /\ pc = "done"
    /\ \E i \in 1..Len(df) : df[i] = AllNaRow
    /\ summary.dropped_no_company >= 1
    /\ summary.job_postings >= 1

\* ------------------------------------------------------------------------
\* C10: the enum columns written for an emitted row (education_level,
\* employment_type, remote_option of job_postings; size, industry of
\* companies) hold the row's value when it is in the closed set and null
\* otherwise; an out-of-set value never drops the row.
\* ------------------------------------------------------------------------
EnumOrNull(v, enum) == IF v \in enum THEN v ELSE None

C10_EnumRevalidation ==
    /\ \A j \in 1..Len(emitted) :
          /\ job_postings[j].education_level
                = EnumOrNull(RowOfJob(j).education_level, EDUCATION_LEVELS)
          /\ job_postings[j].employment_type
                = EnumOrNull(RowOfJob(j).employment_type, EMPLOYMENT_TYPES)
          /\ job_postings[j].remote_option
                = EnumOrNull(RowOfJob(j).remote_option, REMOTE_OPTIONS)
    /\ \A i \in 1..Len(companies) :
          /\ companies[i].size \in COMPANY_SIZES \cup {None}
          /\ companies[i].industry \in INDUSTRIES \cup {None}
          /\ \E j \in 1..Len(emitted) :
                /\ RowOfJob(j).company_name = companies[i].company_name
                /\ companies[i].size = EnumOrNull(RowOfJob(j).company_size, COMPANY_SIZES)
                /\ companies[i].industry = EnumOrNull(RowOfJob(j).industry, INDUSTRIES)
    /\ \A i \in 1..Len(df) :
          /\ CompanyPresent(df[i])
          /\ \/ df[i].education_level \notin EDUCATION_LEVELS
             \/ df[i].employment_type \notin EMPLOYMENT_TYPES
             \/ df[i].remote_option \notin REMOTE_OPTIONS
             \/ df[i].company_size \notin COMPANY_SIZES
             \/ df[i].industry \notin INDUSTRIES
          /\ OtherMeaningful(df[i])
          => i \in Range(emitted)

\* a posting and a company were written from rows with out-of-set enum values
C10_Witness ==
    /\ \E j \in 1..Len(emitted) :
          /\ RowOfJob(j).education_level = "Doctorate"
          /\ RowOfJob(j).employment_type = "__INVALID__"
          /\ job_postings[j].education_level = None
          /\ job_postings[j].employment_type = None
    /\ \E i \in 1..Len(companies) :
          /\ companies[i].company_name = "Beta"
          /\ companies[i].size = None

\* ------------------------------------------------------------------------
\* C28: every input row is either emitted or counted as dropped, so the rows
\* read are as many as the job postings plus the two drop counters, in the
\* loop and in the figures printed at the end; the job ids of the postings
\* are 1..N in the order of the input rows (a dropped row takes no id), and
\* every row that is not dropped has exactly one posting, which is its own.
\* ------------------------------------------------------------------------
C28_RecordConservation ==
    /\ Len(df) = Len(job_postings) + dropped_job_no_company + dropped_job_all_na
    /\ Len(emitted) = Len(job_postings)
    /\ \A j \in 1..Len(job_postings) :
          /\ job_postings[j].job_id = j
          /\ j > 1 => emitted[j - 1] < emitted[j]
          /\ \E c \in 1..Len(companies) :
                /\ companies[c].company_id = job_postings[j].company_id
                /\ companies[c].company_name = RowOfJob(j).company_name
          /\ job_postings[j].posted_date = RowOfJob(j).posted_date
                 \/ job_postings[j].posted_date = None
    /\ \A i \in 1..Len(df) : CompanyPresent(df[i]) => i \in Range(emitted)
    /\ job_id = Len(job_postings) + 1
    /\ pc = "done" =>
          /\ summary.input_rows = Len(df)
          /\ summary.input_rows
                = summary.job_postings + summary.dropped_no_company + summary.dropped_all_na
          /\ summary.job_postings = Len(job_postings)

\* the run ended on a file whose first row was dropped and whose second and
\* third rows got the job ids 1 and 2
C28_Witness ==
    /\ pc = "done"
    /\ Len(df) = 3
    /\ emitted = <<2, 3>>
    /\ job_postings[1].job_id = 1
    /\ job_postings[2].job_id = 2
    /\ summary.dropped_no_company = 1

\* the first posting whose row has the company, or the location, of row c of
\* the table
FirstJobOfCompany(c) ==
    Min({j \in 1..Len(emitted) : RowOfJob(j).company_name = companies[c].company_name})

FirstJobOfLocation(l) ==
    Min({j \in 1..Len(emitted) : LocationKeys[j] = FirstOccurrences(LocationKeys, {})[l]})

NullIfMissing(v) == IF notna(v) THEN v ELSE None

\* ------------------------------------------------------------------------
\* C29: the size and industry of a company are those of the first row with
\* this company_name that was not dropped (null when that row had a value
\* outside the enum), and latitude, longitude and population of a location
\* those of the first such row with its key; a later row with the same key
\* changes no row of the two tables, whatever it carries.
\* ------------------------------------------------------------------------
C29_AttributesOfFirstRow ==
    /\ \A c \in 1..Len(companies) :
          /\ companies[c].size =
                 EnumOrNull(RowOfJob(FirstJobOfCompany(c)).company_size, COMPANY_SIZES)
          /\ companies[c].industry =
                 EnumOrNull(RowOfJob(FirstJobOfCompany(c)).industry, INDUSTRIES)
    /\ \A l \in 1..Len(locations) :
          /\ locations[l].latitude = NullIfMissing(RowOfJob(FirstJobOfLocation(l)).latitude)
          /\ locations[l].longitude = NullIfMissing(RowOfJob(FirstJobOfLocation(l)).longitude)
          /\ locations[l].population =
                 NullIfMissing(RowOfJob(FirstJobOfLocation(l)).population)

\* a company first seen without a size and a location first seen without a
\* population kept these nulls when a later row carried the values
C29_Witness ==
    /\ \E c \in 1..Len(companies) :
          /\ companies[c].size = None
          /\ \E j \in 1..Len(emitted) :
                /\ j > FirstJobOfCompany(c)
                /\ RowOfJob(j).company_name = companies[c].company_name
                /\ RowOfJob(j).company_size \in COMPANY_SIZES
    /\ \E l \in 1..Len(locations) :
          /\ locations[l].population = None
          /\ \E j \in 1..Len(emitted) :
                /\ j > FirstJobOfLocation(l)
                /\ LocationKeys[j] = LocationKeys[FirstJobOfLocation(l)]
                /\ notna(RowOfJob(j).population)

\* ------------------------------------------------------------------------
\* C30: no two rows of job_skills have the same (job_id, skill_id), no two
\* rows of job_roles the same (job_id, role_id), and a job_id has at most one
\* row of job_levels, also when skill_name or role_name lists a token of the
\* closed vocabulary more than once.
\* ------------------------------------------------------------------------
C30_NoDuplicateAssociation ==
    /\ \A x, y \in 1..Len(job_skills) :
          job_skills[x].job_id = job_skills[y].job_id
              /\ job_skills[x].skill_id = job_skills[y].skill_id => x = y
    /\ \A x, y \in 1..Len(job_roles) :
          job_roles[x].job_id = job_roles[y].job_id
              /\ job_roles[x].role_id = job_roles[y].role_id => x = y
    /\ \A x, y \in 1..Len(job_levels) :
          job_levels[x].job_id = job_levels[y].job_id => x = y

====
